---- MODULE Spec2Model ----
(***************************************************************************)
(* A model of github.com/slackmgr/types (package common): the Alert        *)
(* normalisation pass (Clean), the validation pass (Validate and the       *)
(* ValidateX methods), the correlation hash (UniqueID / hash), the payload *)
(* cipher (Encrypt / Decrypt) and the WebhookCallback accessors.           *)
(*                                                                         *)
(* Go strings are modelled as sequences of runes, one one-character TLA+   *)
(* string per ASCII rune and a named element for every other rune:         *)
(*   "U+65E5"  a three-byte rune (the character used by the tests),        *)
(*   "U+FFFD"  utf8.RuneError, three bytes,                                *)
(*   "0xFF"    a byte that is not valid UTF-8 (decodes to RuneError,       *)
(*             width 1),                                                   *)
(*   "0x00"    the NUL byte.                                               *)
(* A nil pointer is the empty sequence and a non-nil pointer to v is <<v>>.*)
(***************************************************************************)
EXTENDS Integers, Sequences, FiniteSets, TLC

VARIABLES alert, input, once, cleans, call, err, now, ha, hb, hids, key, plain, sealed, blob, dkey, opened, cb, got,
          issues, fresh, pc, seen, archived, res, items, sink, sends, held, rpc, ctx, ret, qn,
          enc, pout

vars == <<alert, input, once, cleans, call, err, now, ha, hb, hids, key, plain, sealed, blob, dkey, opened, cb, got,
          issues, fresh, pc, seen, archived, res, items, sink, sends, held, rpc, ctx, ret, qn,
          enc, pout>>

alertVars == <<alert, input, once, cleans, call, err, now>>

hashVars == <<ha, hb, hids>>

cryptoVars == <<key, plain, sealed, blob, dkey, opened>>

callbackVars == <<cb, got>>

storeVars == <<issues, fresh, pc, seen, archived, res>>

queueVars == <<items, sink, sends, held, rpc, ctx, ret, qn>>

payloadVars == <<enc, pout>>

(***************************************************************************)
(* Program constants (src/alert.go, lines 28-74).                          *)
(***************************************************************************)
MaxTimestampAge == 7 * 24 * 3600

MaxSlackChannelIDLength == 80

MaxRouteKeyLength == 1000

MaxHeaderLength == 130

MaxFallbackTextLength == 150

MaxTextLength == 10000

MaxAuthorLength == 100

MaxHostLength == 100

MaxFooterLength == 300

MaxUsernameLength == 100

MaxFieldTitleLength == 30

MaxFieldValueLength == 200

MaxIconEmojiLength == 50

MaxMentionLength == 20

MaxCorrelationIDLength == 500

MinAutoResolveSeconds == 30

MaxAutoResolveSeconds == 63113851

MaxIgnoreIfTextContainsLength == 1000

MaxIgnoreIfTextContainsCount == 20

MaxFieldCount == 20

MaxWebhookCount == 5

MaxWebhookIDLength == 100

MaxWebhookURLLength == 1000

MaxWebhookButtonTextLength == 25

MaxWebhookConfirmationTextLength == 1000

MaxWebhookPayloadCount == 50

MaxWebhookPlainTextInputCount == 10

MaxWebhookCheckboxInputCount == 10

MaxWebhookInputIDLength == 200

MaxWebhookInputDescriptionLength == 200

MaxWebhookInputLabelLength == 200

MaxWebhookInputTextLength == 3000

MaxWebhookCheckboxOptionCount == 5

MaxWebhookCheckboxOptionTextLength == 50

MaxCheckboxOptionValueLength == 100

MaxEscalationCount == 3

MinEscalationDelaySeconds == 30

MinEscalationDelayDiffSeconds == 30

MaxEscalationSlackMentionCount == 10

(***************************************************************************)
(* Bounds of the model.                                                    *)
(***************************************************************************)
\* Clean is called at most MaxCleans times on one Alert.
MaxCleans == 2

\* Over-long inputs exceed their field's limit by 1..MaxExcess runes.
MaxExcess == 2

\* The clock advances at most MaxTicks times.
MaxTicks == 1

(***************************************************************************)
(* Runes and strings.                                                      *)
(***************************************************************************)
RuneSun == "U+65E5"

RuneError == "U+FFFD"

BadByte == "0xFF"

NUL == "0x00"

UpperLetters == <<"A","B","C","D","E","F","G","H","I","J","K","L","M","N","O","P","Q","R","S","T","U","V","W","X","Y","Z">>

LowerLetters == <<"a","b","c","d","e","f","g","h","i","j","k","l","m","n","o","p","q","r","s","t","u","v","w","x","y","z">>

Digits == {"0","1","2","3","4","5","6","7","8","9"}

Range(s) == {s[i] : i \in 1..Len(s)}

Letters == Range(UpperLetters) \cup Range(LowerLetters)

\* unicode.IsSpace restricted to the runes of the model.
WhiteSpace == {" ", "\n", "\t", "\r"}

\* Runes that need more than one byte in UTF-8.
MultiByte == {RuneSun, RuneError}

Rep(c, n) == [i \in 1..n |-> c]

\* len(s): the number of bytes of s.
ByteLen(s) == Len(s) + 2 * Cardinality({i \in 1..Len(s) : s[i] \in MultiByte})

\* utf8.RuneCountInString(s): an invalid byte counts as one rune.
RuneCountInString(s) == Len(s)

\* []rune(s) followed by string(...): every invalid byte becomes RuneError.
ToValidRune(c) == IF c = BadByte THEN RuneError ELSE c

RECURSIVE TrimLeft(_)
TrimLeft(s) == IF s # <<>> /\ Head(s) \in WhiteSpace THEN TrimLeft(Tail(s)) ELSE s

RECURSIVE TrimRight(_)
TrimRight(s) == IF s # <<>> /\ s[Len(s)] \in WhiteSpace THEN TrimRight(SubSeq(s, 1, Len(s) - 1)) ELSE s

\* strings.TrimSpace
TrimSpace(s) == TrimRight(TrimLeft(s))

IsASCII(s) == \A i \in 1..Len(s) : s[i] \notin MultiByte \cup {BadByte}

LowerRune(c) == IF \E i \in 1..26 : UpperLetters[i] = c THEN LowerLetters[CHOOSE i \in 1..26 : UpperLetters[i] = c] ELSE ToValidRune(c)

UpperRune(c) == IF \E i \in 1..26 : LowerLetters[i] = c THEN UpperLetters[CHOOSE i \in 1..26 : LowerLetters[i] = c] ELSE ToValidRune(c)

\* strings.ToLower: an ASCII string without upper-case letters is returned as
\* it is; otherwise every rune is mapped (strings.Map re-encodes invalid bytes).
ToLower(s) ==
    IF IsASCII(s) /\ \A i \in 1..Len(s) : s[i] \notin Range(UpperLetters)
    THEN s
    ELSE [i \in 1..Len(s) |-> LowerRune(s[i])]

\* strings.ToUpper
ToUpper(s) ==
    IF IsASCII(s) /\ \A i \in 1..Len(s) : s[i] \notin Range(LowerLetters)
    THEN s
    ELSE [i \in 1..Len(s) |-> UpperRune(s[i])]

HasPrefix(s, p) == Len(s) >= Len(p) /\ SubSeq(s, 1, Len(p)) = p

\* strings.HasSuffix
HasSuffix(s, p) == Len(s) >= Len(p) /\ SubSeq(s, Len(s) - Len(p) + 1, Len(s)) = p

\* The indexes from which old occurs in s, at or after index from.
MatchesFrom(s, old, from) == {i \in from..(Len(s) - Len(old) + 1) : SubSeq(s, i, i + Len(old) - 1) = old}

SetMin(S) == CHOOSE i \in S : \A j \in S : i <= j

\* strings.ReplaceAll(s, old, new) for a non-empty old: the non-overlapping
\* occurrences of old, found from left to right in one pass, are replaced.
\* replaceFrom is the rest of the result once s[1..from-1] is consumed.
RECURSIVE replaceFrom(_, _, _, _)
replaceFrom(s, old, new, from) ==
    LET ms == MatchesFrom(s, old, from)
    IN IF ms = {} THEN SubSeq(s, from, Len(s))
       ELSE SubSeq(s, from, SetMin(ms) - 1) \o new \o replaceFrom(s, old, new, SetMin(ms) + Len(old))

ReplaceAll(s, old, new) == replaceFrom(s, old, new, 1)

Contains(s, sub) == \E i \in 1..(Len(s) - Len(sub) + 1) : SubSeq(s, i, i + Len(sub) - 1) = sub

StatusToken == <<":", "s", "t", "a", "t", "u", "s", ":">>

Ellipsis == <<".", ".", ".">>

\* The backquote rune (one byte).
Backquote == "U+0060"

CodeFence == <<Backquote, Backquote, Backquote>>

\* The number of whole runes of s that fit in the first m bytes, between lo
\* and hi.
RECURSIVE wholeRunesIn(_, _, _, _)
wholeRunesIn(s, m, lo, hi) ==
    IF lo >= hi THEN lo
    ELSE LET mid == (lo + hi + 1) \div 2
         IN IF ByteLen(SubSeq(s, 1, mid)) <= m
            THEN wholeRunesIn(s, m, mid, hi)
            ELSE wholeRunesIn(s, m, lo, mid - 1)

\* A truncation that cuts after maxRunes bytes, s[:maxRunes], in place of
\* string([]rune(s)[:maxRunes]): the bytes of a rune the cut falls into stay
\* behind as invalid bytes.
truncateStringAtByte(s, maxRunes) ==
    IF RuneCountInString(s) <= maxRunes
    THEN s
    ELSE LET k == wholeRunesIn(s, maxRunes, 0, maxRunes)
         IN SubSeq(s, 1, k) \o Rep(BadByte, maxRunes - ByteLen(SubSeq(s, 1, k)))

\* truncateString (src/alert.go:871)
truncateString(s, maxRunes) ==
    IF RuneCountInString(s) <= maxRunes
    THEN s
    ELSE [i \in 1..maxRunes |-> ToValidRune(s[i])]

\* shortenAlertTextIfNeeded (src/alert.go:856)
shortenAlertTextIfNeeded(text) ==
    IF RuneCountInString(text) <= MaxTextLength THEN text
    ELSE IF HasSuffix(text, CodeFence)
    THEN TrimSpace(truncateString(text, MaxTextLength - 6)) \o Ellipsis \o CodeFence
    ELSE TrimSpace(truncateString(text, MaxTextLength - 3)) \o Ellipsis

(***************************************************************************)
(* Enumerations (AlertSeverity, WebhookButtonStyle, WebhookAccessLevel,    *)
(* WebhookDisplayMode).                                                    *)
(***************************************************************************)
AlertPanic == <<"p","a","n","i","c">>

AlertError == <<"e","r","r","o","r">>

AlertWarning == <<"w","a","r","n","i","n","g">>

AlertResolved == <<"r","e","s","o","l","v","e","d">>

AlertInfo == <<"i","n","f","o">>

validSeverities == {AlertPanic, AlertError, AlertWarning, AlertResolved, AlertInfo}

SeverityIsValid(s) == s \in validSeverities

WebhookButtonStylePrimary == <<"p","r","i","m","a","r","y">>

WebhookButtonStyleDanger == <<"d","a","n","g","e","r">>

WebhookButtonStyleIsValid(s) == s \in {WebhookButtonStylePrimary, WebhookButtonStyleDanger}

WebhookAccessLevelGlobalAdmins == <<"g","l","o","b","a","l","_","a","d","m","i","n","s">>

WebhookAccessLevelChannelAdmins == <<"c","h","a","n","n","e","l","_","a","d","m","i","n","s">>

WebhookAccessLevelChannelMembers == <<"c","h","a","n","n","e","l","_","m","e","m","b","e","r","s">>

WebhookAccessLevelIsValid(s) == s \in {WebhookAccessLevelGlobalAdmins, WebhookAccessLevelChannelAdmins, WebhookAccessLevelChannelMembers}

WebhookDisplayModeAlways == <<"a","l","w","a","y","s">>

WebhookDisplayModeOpenIssue == <<"o","p","e","n","_","i","s","s","u","e">>

WebhookDisplayModeResolvedIssue == <<"r","e","s","o","l","v","e","d","_","i","s","s","u","e">>

WebhookDisplayModeIsValid(s) == s \in {WebhookDisplayModeAlways, WebhookDisplayModeOpenIssue, WebhookDisplayModeResolvedIssue}

(***************************************************************************)
(* Alert.Clean (src/alert.go:300-443).                                     *)
(***************************************************************************)
\* The pattern of lines 341-383: a field longer than max runes is cut to
\* max-3 runes, trimmed, and given the ellipsis.
shortenIfNeeded(s, max) ==
    IF RuneCountInString(s) > max
    THEN TrimSpace(truncateString(s, max - 3)) \o Ellipsis
    ELSE s

\* Lines 323-325: FallbackText is cut without the trailing trim.
shortenFallbackText(s) ==
    IF RuneCountInString(s) > MaxFallbackTextLength
    THEN truncateString(s, MaxFallbackTextLength - 3) \o Ellipsis
    ELSE s

\* Lines 312-313: the status tokens go, then the trim, then the newlines.
cleanFallbackText(s) == ReplaceAll(TrimSpace(ReplaceAll(s, StatusToken, <<>>)), <<"\n">>, <<" ">>)

\* Lines 308-309.
cleanHeader(s) == ReplaceAll(TrimSpace(s), <<"\n">>, <<" ">>)

\* Lines 321 and 327-329.
cleanSeverity(s) ==
    LET v == ToLower(TrimSpace(s))
    IN IF v = <<>> \/ v = <<"c","r","i","t","i","c","a","l">> THEN AlertError ELSE v

\* Lines 368-383 with a nil element replaced by a new empty Field instead of
\* being skipped.
cleanFieldAllocating(p) ==
    IF p = <<>> THEN <<[Title |-> <<>>, Value |-> <<>>]>>
    ELSE <<[Title |-> shortenIfNeeded(TrimSpace(p[1].Title), MaxFieldTitleLength),
            Value |-> shortenIfNeeded(TrimSpace(p[1].Value), MaxFieldValueLength)]>>

\* Lines 368-383, one element of a.Fields (a pointer).
cleanField(p) ==
    IF p = <<>> THEN p
    ELSE <<[Title |-> shortenIfNeeded(TrimSpace(p[1].Title), MaxFieldTitleLength),
            Value |-> shortenIfNeeded(TrimSpace(p[1].Value), MaxFieldValueLength)]>>

\* Lines 399-407, one element of hook.PlainTextInput.
cleanPlainTextInput(p) ==
    IF p = <<>> THEN p
    ELSE <<[p[1] EXCEPT !.ID = TrimSpace(@), !.Description = TrimSpace(@), !.InitialValue = TrimSpace(@)]>>

\* Lines 409-416, one element of hook.CheckboxInput.
cleanCheckboxInput(p) ==
    IF p = <<>> THEN p
    ELSE <<[p[1] EXCEPT !.ID = TrimSpace(@), !.Label = TrimSpace(@)]>>

\* Lines 385-417, one element of a.Webhooks.
cleanWebhook(p) ==
    IF p = <<>> THEN p
    ELSE <<[p[1] EXCEPT !.ID = TrimSpace(@),
                        !.ButtonText = TrimSpace(@),
                        !.URL = TrimSpace(@),
                        !.ConfirmationText = TrimSpace(@),
                        !.ButtonStyle = IF @ = <<"d","e","f","a","u","l","t">> THEN <<>> ELSE @,
                        !.PlainTextInput = [i \in 1..Len(@) |-> cleanPlainTextInput(@[i])],
                        !.CheckboxInput = [i \in 1..Len(@) |-> cleanCheckboxInput(@[i])]]>>

\* The less function of line 420 with the nil checks the other way round: a
\* nil element sorts last.
escalationLessNilLast(x, y) ==
    IF y = <<>> THEN x # <<>>
    ELSE IF x = <<>> THEN FALSE
    ELSE x[1].DelaySeconds < y[1].DelaySeconds

\* The less function of lines 420-428, on two elements of a.Escalation.
escalationLess(x, y) ==
    IF x = <<>> THEN TRUE
    ELSE IF y = <<>> THEN FALSE
    ELSE x[1].DelaySeconds < y[1].DelaySeconds

Swap(s, i, j) == [s EXCEPT ![i] = s[j], ![j] = s[i]]

\* The inner loop of the insertion sort sort.Slice runs on a slice of at most
\* 12 elements: for j := i; j > a && less(j, j-1); j-- { swap(j, j-1) }.
RECURSIVE sortInsert(_, _)
sortInsert(s, j) ==
    IF j > 1 /\ escalationLess(s[j], s[j - 1])
    THEN sortInsert(Swap(s, j, j - 1), j - 1)
    ELSE s

\* The outer loop: for i := a + 1; i < b; i++.
RECURSIVE sortFrom(_, _)
sortFrom(s, i) == IF i > Len(s) THEN s ELSE sortFrom(sortInsert(s, i), i + 1)

\* Line 420 left out: the list stays in the order of the input.
sortEscalationSkipped(s) == s

\* sort.Slice(a.Escalation, less) of line 420.
sortEscalation(s) == sortFrom(s, 2)

\* Lines 430-441, one element of a.Escalation.
cleanEscalation(p) ==
    IF p = <<>> THEN p
    ELSE <<[p[1] EXCEPT !.Severity = ToLower(TrimSpace(@)),
                        !.MoveToChannel = ToUpper(TrimSpace(@)),
                        !.SlackMentions = [i \in 1..Len(@) |-> TrimSpace(@[i])]]>>

\* Lines 419-442.
cleanEscalations(s) ==
    IF Len(s) > 0
    THEN LET sorted == sortEscalation(s) IN [i \in 1..Len(sorted) |-> cleanEscalation(sorted[i])]
    ELSE s

\* Lines 301-303 with the comparison >=: a timestamp of exactly
\* MaxTimestampAge is replaced too.
cleanTimestampAtLeast(ts, t) == IF t - ts >= MaxTimestampAge THEN t ELSE ts

\* Lines 301-303: time.Since(a.Timestamp) is t - ts.
cleanTimestamp(ts, t) == IF t - ts > MaxTimestampAge THEN t ELSE ts

\* Alert.Clean with t the value of time.Now(); time.Since(a.Timestamp) is
\* t - a.Timestamp, in seconds.
Clean(a, t) ==
    [a EXCEPT !.Timestamp = cleanTimestamp(@, t),
              !.Type = ToLower(TrimSpace(@)),
              !.SlackChannelID = ToUpper(TrimSpace(@)),
              !.RouteKey = ToLower(TrimSpace(@)),
              !.Header = shortenIfNeeded(cleanHeader(@), MaxHeaderLength),
              !.HeaderWhenResolved = shortenIfNeeded(cleanHeader(@), MaxHeaderLength),
              !.Text = shortenAlertTextIfNeeded(TrimSpace(@)),
              !.TextWhenResolved = shortenAlertTextIfNeeded(TrimSpace(@)),
              !.FallbackText = shortenFallbackText(cleanFallbackText(@)),
              !.CorrelationID = TrimSpace(@),
              !.Username = shortenIfNeeded(TrimSpace(@), MaxUsernameLength),
              !.Author = shortenIfNeeded(TrimSpace(@), MaxAuthorLength),
              !.Host = shortenIfNeeded(TrimSpace(@), MaxHostLength),
              !.Link = TrimSpace(@),
              !.Footer = shortenIfNeeded(TrimSpace(@), MaxFooterLength),
              !.IconEmoji = ToLower(TrimSpace(@)),
              !.Severity = cleanSeverity(@),
              !.ArchivingDelaySeconds = IF @ < 0 THEN 0 ELSE @,
              !.NotificationDelaySeconds = IF @ < 0 THEN 0 ELSE @,
              !.Fields = [i \in 1..Len(@) |-> cleanField(@[i])],
              !.Webhooks = [i \in 1..Len(@) |-> cleanWebhook(@[i])],
              !.Escalation = cleanEscalations(@)]

(***************************************************************************)
(* Errors.  An error is its format string, the indexes substituted for the *)
(* %d index verbs (0-based, as in Go) and the integer substituted for a    *)
(* %d value verb (0 when there is none); values printed with %s are left   *)
(* out.  NoError is the nil error.                                         *)
(***************************************************************************)
Err(msg, at, val) == [msg |-> msg, at |-> at, val |-> val]

NoError == Err("", <<>>, 0)

(***************************************************************************)
(* The regular expressions of src/alert.go:16-26.                          *)
(***************************************************************************)
ChannelRunes == Digits \cup Letters \cup {"-", "_"}

\* SlackChannelIDOrNameRegex.MatchString: ^[0-9a-zA-Z\-_]{1,80}$
SlackChannelIDOrNameRegex(s) ==
    /\ Len(s) >= 1
    /\ Len(s) <= MaxSlackChannelIDLength
    /\ \A i \in 1..Len(s) : s[i] \in ChannelRunes

\* IconRegex.MatchString: ^:[^:]{1,50}:$
IconRegex(s) ==
    /\ Len(s) >= 3
    /\ Len(s) <= MaxIconEmojiLength + 2
    /\ s[1] = ":"
    /\ s[Len(s)] = ":"
    /\ \A i \in 2..(Len(s) - 1) : s[i] # ":"

MentionHere == <<"<", "!", "h", "e", "r", "e", ">">>

MentionChannel == <<"<", "!", "c", "h", "a", "n", "n", "e", "l", ">">>

\* SlackMentionRegex.MatchString: ^((<!here>)|(<!channel>)|(<@[^>\s]{1,20}>))$
SlackMentionRegex(s) ==
    \/ s = MentionHere
    \/ s = MentionChannel
    \/ /\ Len(s) >= 4
       /\ Len(s) <= MaxMentionLength + 3
       /\ s[1] = "<"
       /\ s[2] = "@"
       /\ s[Len(s)] = ">"
       /\ \A i \in 3..(Len(s) - 1) : s[i] \notin {">", " ", "\t", "\n", "\r"}

(***************************************************************************)
(* url.ParseRequestURI (net/url), as far as the callers at lines 537 and   *)
(* 649 use it: whether it fails, and the scheme it finds.  The URLs of the *)
(* model hold no '%', '@', '[' or '#'.                                     *)
(***************************************************************************)
\* stringContainsCTLByte: a byte below ' ' or 0x7f.
ControlRunes == {NUL, "\n", "\t", "\r"}

SchemeTailRunes == Digits \cup {"+", "-", "."}

\* The index of the first rune of s that ends getScheme's loop, 0 if none.
RECURSIVE schemeStop(_, _)
schemeStop(s, i) ==
    IF i > Len(s) THEN 0
    ELSE IF s[i] \in Letters THEN schemeStop(s, i + 1)
    ELSE IF s[i] \in SchemeTailRunes /\ i > 1 THEN schemeStop(s, i + 1)
    ELSE i

\* getScheme: (scheme, rest, ok).
getScheme(rawURL) ==
    LET i == schemeStop(rawURL, 1)
    IN IF i = 0 THEN [scheme |-> <<>>, rest |-> rawURL, ok |-> TRUE]
       ELSE IF rawURL[i] # ":" THEN [scheme |-> <<>>, rest |-> rawURL, ok |-> TRUE]
       ELSE IF i = 1 THEN [scheme |-> <<>>, rest |-> <<>>, ok |-> FALSE]
       ELSE [scheme |-> SubSeq(rawURL, 1, i - 1), rest |-> SubSeq(rawURL, i + 1, Len(rawURL)), ok |-> TRUE]

\* The index of the first c in s, 0 if there is none.
IndexRune(s, c) == IF \E i \in 1..Len(s) : s[i] = c THEN CHOOSE i \in 1..Len(s) : s[i] = c /\ \A j \in 1..(i - 1) : s[j] # c ELSE 0

\* strings.Cut(rest, "?") and the trailing-'?' case: the part before the query.
beforeQuery(rest) == LET i == IndexRune(rest, "?") IN IF i = 0 THEN rest ELSE SubSeq(rest, 1, i - 1)

\* Host runes that parseHost rejects ("invalid character in host name").
HostInvalidRunes == {" ", "?", "\\", "^", "{", "}", "|", Backquote}

LastIndexRune(s, c) == IF \E i \in 1..Len(s) : s[i] = c THEN CHOOSE i \in 1..Len(s) : s[i] = c /\ \A j \in (i + 1)..Len(s) : s[j] # c ELSE 0

\* parseAuthority / parseHost: a port, if any, is made of digits.
validAuthority(authority) ==
    LET c == LastIndexRune(authority, ":")
    IN /\ \A i \in 1..Len(authority) : authority[i] \notin HostInvalidRunes
       /\ c > 0 => \A i \in (c + 1)..Len(authority) : authority[i] \in Digits

\* parse(rawURL, viaRequest = true): [ok, Scheme].
ParseRequestURI(rawURL) ==
    LET fail == [ok |-> FALSE, Scheme |-> <<>>]
        sch == getScheme(rawURL)
        rest == beforeQuery(sch.rest)
        scheme == ToLower(sch.scheme)
    IN IF \E i \in 1..Len(rawURL) : rawURL[i] \in ControlRunes THEN fail
       ELSE IF rawURL = <<>> THEN fail
       ELSE IF rawURL = <<"*">> THEN [ok |-> TRUE, Scheme |-> <<>>]
       ELSE IF ~sch.ok THEN fail
       ELSE IF ~HasPrefix(rest, <<"/">>)
       THEN IF scheme # <<>> THEN [ok |-> TRUE, Scheme |-> scheme] ELSE fail
       ELSE IF scheme # <<>> /\ HasPrefix(rest, <<"/", "/">>)
       THEN LET after == SubSeq(rest, 3, Len(rest))
                i == IndexRune(after, "/")
                authority == IF i = 0 THEN after ELSE SubSeq(after, 1, i - 1)
            IN IF validAuthority(authority) THEN [ok |-> TRUE, Scheme |-> scheme] ELSE fail
       ELSE [ok |-> TRUE, Scheme |-> scheme]

(***************************************************************************)
(* The ValidateX methods (src/alert.go:494-854).  Each returns the error   *)
(* of its first failing check, NoError when none fails.                    *)
(***************************************************************************)
ValidateSlackChannelIDAndRouteKey(a) ==
    IF a.SlackChannelID # <<>>
    THEN IF ~SlackChannelIDOrNameRegex(a.SlackChannelID)
         THEN Err("slackChannelId '%s' is not valid", <<>>, 0)
         ELSE NoError
    ELSE IF ByteLen(a.RouteKey) > MaxRouteKeyLength
    THEN Err("routeKey is too long, expected length <=%d", <<>>, MaxRouteKeyLength)
    ELSE NoError

ValidateHeaderAndText(a) ==
    IF a.Header = <<>> /\ a.Text = <<>>
    THEN Err("header and text cannot both be empty", <<>>, 0)
    ELSE NoError

ValidateIcon(a) ==
    IF a.IconEmoji = <<>> THEN NoError
    ELSE IF ~IconRegex(a.IconEmoji) THEN Err("iconEmoji '%s' is not valid", <<>>, 0)
    ELSE NoError

ValidateLink(a) ==
    IF a.Link = <<>> THEN NoError
    ELSE LET url == ParseRequestURI(a.Link)
         IN IF ~url.ok THEN Err("link is not a valid absolute URL", <<>>, 0)
            ELSE IF url.Scheme = <<>> THEN Err("link is not a valid absolute URL", <<>>, 0)
            ELSE NoError

ValidateSeverity(a) ==
    IF ~SeverityIsValid(a.Severity)
    THEN Err("severity '%s' is not valid, expected one of [%s]", <<>>, 0)
    ELSE NoError

ValidateCorrelationID(a) ==
    IF a.CorrelationID = <<>> THEN NoError
    ELSE IF ByteLen(a.CorrelationID) > MaxCorrelationIDLength
    THEN Err("correlationId is too long, expected length <=%d", <<>>, MaxCorrelationIDLength)
    ELSE NoError

ValidateAutoResolve(a) ==
    IF ~a.IssueFollowUpEnabled THEN NoError
    ELSE IF a.AutoResolveSeconds < MinAutoResolveSeconds
    THEN Err("autoResolveSeconds %d is too low, expected value >=%d", <<>>, a.AutoResolveSeconds)
    ELSE IF a.AutoResolveSeconds > MaxAutoResolveSeconds
    THEN Err("autoResolveSeconds %d is too high, expected value <=%d", <<>>, a.AutoResolveSeconds)
    ELSE NoError

\* The loop of lines 594-598 from element i (1-based) on.
RECURSIVE ignoreIfTextContainsFrom(_, _)
ignoreIfTextContainsFrom(list, i) ==
    IF i > Len(list) THEN NoError
    ELSE IF ByteLen(list[i]) > MaxIgnoreIfTextContainsLength
    THEN Err("ignoreIfTextContains[%d] is too long, expected length <=%d", <<i - 1>>, MaxIgnoreIfTextContainsLength)
    ELSE ignoreIfTextContainsFrom(list, i + 1)

ValidateIgnoreIfTextContains(a) ==
    IF Len(a.IgnoreIfTextContains) = 0 THEN NoError
    ELSE IF Len(a.IgnoreIfTextContains) > MaxIgnoreIfTextContainsCount
    THEN Err("too many ignoreIfTextContains items, expected <=%d", <<>>, MaxIgnoreIfTextContainsCount)
    ELSE ignoreIfTextContainsFrom(a.IgnoreIfTextContains, 1)

ValidateFields(a) ==
    IF Len(a.Fields) > MaxFieldCount
    THEN Err("too many fields, expected <=%d", <<>>, MaxFieldCount)
    ELSE NoError

\* Lines 697-745: one element of hook.PlainTextInput, inputIDs the IDs seen.
validatePlainTextInput(p, index, inputIndex, inputIDs) ==
    LET at == <<index, inputIndex>>
        in == p[1]
    IN IF p = <<>> THEN Err("webhook[%d].plainTextInput[%d] is nil", at, 0)
       ELSE IF in.ID = <<>> THEN Err("webhook[%d].plainTextInput[%d].id is required", at, 0)
       ELSE IF in.ID \in inputIDs THEN Err("webhook[%d].plainTextInput[%d].id must be unique among all inputs", at, 0)
       ELSE IF ByteLen(in.ID) > MaxWebhookInputIDLength THEN Err("webhook[%d].plainTextInput[%d].id is too long, expected <=%d", at, MaxWebhookInputIDLength)
       ELSE IF ByteLen(in.Description) > MaxWebhookInputDescriptionLength THEN Err("webhook[%d].plainTextInput[%d].description is too long, expected <=%d", at, MaxWebhookInputDescriptionLength)
       ELSE IF in.MinLength < 0 THEN Err("webhook[%d].plainTextInput[%d].minLength must be >=0", at, 0)
       ELSE IF in.MinLength > MaxWebhookInputTextLength THEN Err("webhook[%d].plainTextInput[%d].minLength must be <=%d", at, MaxWebhookInputTextLength)
       ELSE IF in.MaxLength < 0 THEN Err("webhook[%d].plainTextInput[%d].maxLength must be >=0", at, 0)
       ELSE IF in.MaxLength > MaxWebhookInputTextLength THEN Err("webhook[%d].plainTextInput[%d].maxLength must be <=%d", at, MaxWebhookInputTextLength)
       ELSE IF in.MaxLength < in.MinLength THEN Err("webhook[%d].plainTextInput[%d].maxLength cannot be smaller than minLength", at, 0)
       ELSE IF ByteLen(in.InitialValue) > in.MaxLength THEN Err("webhook[%d].plainTextInput[%d].initialValue cannot be longer than maxLength", at, 0)
       ELSE IF ByteLen(in.InitialValue) < in.MinLength THEN Err("webhook[%d].plainTextInput[%d].initialValue cannot be shorter than minLength", at, 0)
       ELSE NoError

\* The loop of line 696 from element i (1-based) on.
RECURSIVE plainTextInputsFrom(_, _, _, _)
plainTextInputsFrom(inputs, index, i, inputIDs) ==
    IF i > Len(inputs) THEN NoError
    ELSE LET e == validatePlainTextInput(inputs[i], index, i - 1, inputIDs)
         IN IF e # NoError THEN e
            ELSE plainTextInputsFrom(inputs, index, i + 1, inputIDs \cup {inputs[i][1].ID})

\* Lines 778-798: one element of input.Options, values the values seen.
validateCheckboxOption(p, index, inputIndex, optionIndex, values) ==
    LET at == <<index, inputIndex, optionIndex>>
        option == p[1]
    IN IF p = <<>> THEN Err("webhook[%d].checkboxInput[%d].options[%d] is nil", at, 0)
       ELSE IF option.Value = <<>> THEN Err("webhook[%d].checkboxInput[%d].options[%d].value is required", at, 0)
       ELSE IF ByteLen(option.Value) > MaxCheckboxOptionValueLength THEN Err("webhook[%d].checkboxInput[%d].options[%d].value is too long, expected <=%d", at, MaxCheckboxOptionValueLength)
       ELSE IF option.Value \in values THEN Err("webhook[%d].checkboxInput[%d].options[%d].value must be unique", at, 0)
       ELSE IF ByteLen(option.Text) > MaxWebhookCheckboxOptionTextLength THEN Err("webhook[%d].checkboxInput[%d].options[%d].text is too long, expected <=%d", at, MaxWebhookCheckboxOptionTextLength)
       ELSE NoError

\* The loop of line 777 from element i (1-based) on.
RECURSIVE checkboxOptionsFrom(_, _, _, _, _)
checkboxOptionsFrom(options, index, inputIndex, i, values) ==
    IF i > Len(options) THEN NoError
    ELSE LET e == validateCheckboxOption(options[i], index, inputIndex, i - 1, values)
         IN IF e # NoError THEN e
            ELSE checkboxOptionsFrom(options, index, inputIndex, i + 1, values \cup {options[i][1].Value})

\* Lines 749-799: one element of hook.CheckboxInput.
validateCheckboxInput(p, index, inputIndex, inputIDs) ==
    LET at == <<index, inputIndex>>
        in == p[1]
    IN IF p = <<>> THEN Err("webhook[%d].checkboxInput[%d] is nil", at, 0)
       ELSE IF in.ID = <<>> THEN Err("webhook[%d].checkboxInput[%d].id is required", at, 0)
       ELSE IF in.ID \in inputIDs THEN Err("webhook[%d].checkboxInput[%d].id must be unique among all inputs", at, 0)
       ELSE IF ByteLen(in.ID) > MaxWebhookInputIDLength THEN Err("webhook[%d].checkboxInput[%d].id is too long, expected <=%d", at, MaxWebhookInputIDLength)
       ELSE IF ByteLen(in.Label) > MaxWebhookInputLabelLength THEN Err("webhook[%d].checkboxInput[%d].label is too long, expected <=%d", at, MaxWebhookInputLabelLength)
       ELSE IF Len(in.Options) > MaxWebhookCheckboxOptionCount THEN Err("webhook[%d].checkboxInput[%d].options item count is too large, expected <=%d", at, MaxWebhookCheckboxOptionCount)
       ELSE checkboxOptionsFrom(in.Options, index, inputIndex, 1, {})

\* The checkbox loop with a map of its own for the IDs it has seen, in place
\* of the map the plain text loop has filled.
RECURSIVE checkboxInputsFromOwnIDs(_, _, _, _)
checkboxInputsFromOwnIDs(inputs, index, i, inputIDs) ==
    IF i > Len(inputs) THEN NoError
    ELSE LET e == validateCheckboxInput(inputs[i], index, i - 1, {inputs[k][1].ID : k \in 1..(i - 1)})
         IN IF e # NoError THEN e
            ELSE checkboxInputsFromOwnIDs(inputs, index, i + 1, inputIDs)

\* The loop of line 748 from element i (1-based) on.
RECURSIVE checkboxInputsFrom(_, _, _, _)
checkboxInputsFrom(inputs, index, i, inputIDs) ==
    IF i > Len(inputs) THEN NoError
    ELSE LET e == validateCheckboxInput(inputs[i], index, i - 1, inputIDs)
         IN IF e # NoError THEN e
            ELSE checkboxInputsFrom(inputs, index, i + 1, inputIDs \cup {inputs[i][1].ID})

\* len(hook.Payload): the number of keys of the map.
PayloadLen(payload) == Cardinality(DOMAIN payload)

\* Lines 623-800: one element of a.Webhooks, webhookIDs the IDs seen.
validateWebhook(p, index, webhookIDs) ==
    LET at == <<index>>
        hook == p[1]
        url == ParseRequestURI(hook.URL)
    IN IF p = <<>> THEN Err("webhook[%d] is nil", at, 0)
       ELSE IF hook.ID = <<>> THEN Err("webhook[%d].id is required", at, 0)
       ELSE IF ByteLen(hook.ID) > MaxWebhookIDLength THEN Err("webhook[%d].id is too long, expected length <=%d", at, MaxWebhookIDLength)
       ELSE IF hook.ID \in webhookIDs THEN Err("webhook[%d].id must be unique", at, 0)
       ELSE IF hook.URL = <<>> THEN Err("webhook[%d].url is required", at, 0)
       ELSE IF ByteLen(hook.URL) > MaxWebhookURLLength THEN Err("webhook[%d].url is too long, expected length <=%d", at, MaxWebhookURLLength)
       ELSE IF ~url.ok THEN Err("webhook[%d].url is not a valid absolute URL", at, 0)
       ELSE IF url.Scheme = <<>> THEN Err("webhook[%d].url is not a valid absolute URL", at, 0)
       ELSE IF hook.ButtonText = <<>> THEN Err("webhook[%d].buttonText is required", at, 0)
       ELSE IF ByteLen(hook.ButtonText) > MaxWebhookButtonTextLength THEN Err("webhook[%d].buttonText is too long, expected length <=%d", at, MaxWebhookButtonTextLength)
       ELSE IF ByteLen(hook.ConfirmationText) > MaxWebhookConfirmationTextLength THEN Err("webhook[%d].confirmationText is too long, expected length <=%d", at, MaxWebhookConfirmationTextLength)
       ELSE IF hook.ButtonStyle # <<>> /\ ~WebhookButtonStyleIsValid(hook.ButtonStyle) THEN Err("webhook[%d].buttonStyle '%s' is not valid, expected empty or one of [%s]", at, 0)
       ELSE IF hook.AccessLevel # <<>> /\ ~WebhookAccessLevelIsValid(hook.AccessLevel) THEN Err("webhook[%d].accessLevel '%s' is not valid, expected empty or one of [%s]", at, 0)
       ELSE IF hook.DisplayMode # <<>> /\ ~WebhookDisplayModeIsValid(hook.DisplayMode) THEN Err("webhook[%d].displayMode '%s' is not valid, expected empty or one of [%s]", at, 0)
       ELSE IF PayloadLen(hook.Payload) > MaxWebhookPayloadCount THEN Err("webhook[%d].payload item count is too large, expected <=%d", at, MaxWebhookPayloadCount)
       ELSE IF Len(hook.PlainTextInput) > MaxWebhookPlainTextInputCount THEN Err("webhook[%d].plainTextInput item count is too large, expected <=%d", at, MaxWebhookPlainTextInputCount)
       ELSE IF Len(hook.CheckboxInput) > MaxWebhookCheckboxInputCount THEN Err("webhook[%d].checkboxInput item count is too large, expected <=%d", at, MaxWebhookCheckboxInputCount)
       ELSE LET e == plainTextInputsFrom(hook.PlainTextInput, index, 1, {})
            IN IF e # NoError THEN e
               ELSE checkboxInputsFrom(hook.CheckboxInput, index, 1, {hook.PlainTextInput[i][1].ID : i \in 1..Len(hook.PlainTextInput)})

\* The loop of ValidateWebhooks without line 639, which records the ID of a
\* webhook that passed.
RECURSIVE webhooksFromUnrecorded(_, _, _)
webhooksFromUnrecorded(hooks, i, webhookIDs) ==
    IF i > Len(hooks) THEN NoError
    ELSE LET e == validateWebhook(hooks[i], i - 1, webhookIDs)
         IN IF e # NoError THEN e
            ELSE webhooksFromUnrecorded(hooks, i + 1, webhookIDs)

\* The loop of line 622 from element i (1-based) on.
RECURSIVE webhooksFrom(_, _, _)
webhooksFrom(hooks, i, webhookIDs) ==
    IF i > Len(hooks) THEN NoError
    ELSE LET e == validateWebhook(hooks[i], i - 1, webhookIDs)
         IN IF e # NoError THEN e
            ELSE webhooksFrom(hooks, i + 1, webhookIDs \cup {hooks[i][1].ID})

\* Alert.ValidateWebhooks (a nil slice and an empty one both have length 0).
ValidateWebhooks(a) ==
    IF Len(a.Webhooks) = 0 THEN NoError
    ELSE IF Len(a.Webhooks) > MaxWebhookCount
    THEN Err("too many webhooks, expected <=%d", <<>>, MaxWebhookCount)
    ELSE webhooksFrom(a.Webhooks, 1, {})

\* The loop of lines 840-844 from element j (1-based) on.
RECURSIVE slackMentionsFrom(_, _, _)
slackMentionsFrom(mentions, index, j) ==
    IF j > Len(mentions) THEN NoError
    ELSE IF ~SlackMentionRegex(mentions[j]) THEN Err("escalation[%d].slackMentions[%d] is not valid", <<index, j - 1>>, 0)
    ELSE slackMentionsFrom(mentions, index, j + 1)

\* Lines 818-850: one element of a.Escalation.
validateEscalation(p, index, previousDelay) ==
    LET at == <<index>>
        e == p[1]
        m == slackMentionsFrom(e.SlackMentions, index, 1)
    IN IF p = <<>> THEN Err("escalation[%d] is nil", at, 0)
       ELSE IF e.DelaySeconds < MinEscalationDelaySeconds THEN Err("escalation[%d].delaySeconds '%d' is too low, expected value >=%d", at, e.DelaySeconds)
       ELSE IF previousDelay > 0 /\ e.DelaySeconds - previousDelay < MinEscalationDelayDiffSeconds THEN Err("escalation[%d].delaySeconds '%d' is too small compared to previous escalation, expected diff >=%d", at, e.DelaySeconds)
       ELSE IF e.Severity # AlertPanic /\ e.Severity # AlertError /\ e.Severity # AlertWarning THEN Err("escalation[%d].severity '%s' is not valid, expected one of [panic, error, warning]", at, 0)
       ELSE IF Len(e.SlackMentions) > MaxEscalationSlackMentionCount THEN Err("escalation[%d].slackMentions item count is too large, expected <=%d", at, MaxEscalationSlackMentionCount)
       ELSE IF m # NoError THEN m
       ELSE IF e.MoveToChannel # <<>> /\ ~SlackChannelIDOrNameRegex(e.MoveToChannel) THEN Err("escalation[%d].moveToChannel is not valid", at, 0)
       ELSE NoError

\* The loop of ValidateEscalation without line 830, which remembers the
\* delay of the entry that passed.
RECURSIVE escalationsFromUnremembered(_, _, _)
escalationsFromUnremembered(list, i, previousDelay) ==
    IF i > Len(list) THEN NoError
    ELSE LET e == validateEscalation(list[i], i - 1, previousDelay)
         IN IF e # NoError THEN e
            ELSE escalationsFromUnremembered(list, i + 1, previousDelay)

\* The loop of line 817 from element i (1-based) on.
RECURSIVE escalationsFrom(_, _, _)
escalationsFrom(list, i, previousDelay) ==
    IF i > Len(list) THEN NoError
    ELSE LET e == validateEscalation(list[i], i - 1, previousDelay)
         IN IF e # NoError THEN e
            ELSE escalationsFrom(list, i + 1, list[i][1].DelaySeconds)

\* Alert.ValidateEscalation
ValidateEscalation(a) ==
    IF Len(a.Escalation) = 0 THEN NoError
    ELSE IF Len(a.Escalation) > MaxEscalationCount
    THEN Err("too many escalation points, expected <=%d", <<>>, MaxEscalationCount)
    ELSE escalationsFrom(a.Escalation, 1, 0)

\* Validate with the webhook check and the escalation check in the other
\* order.
ValidateEscalationFirst(a) ==
    IF ValidateSlackChannelIDAndRouteKey(a) # NoError THEN ValidateSlackChannelIDAndRouteKey(a)
    ELSE IF ValidateHeaderAndText(a) # NoError THEN ValidateHeaderAndText(a)
    ELSE IF ValidateIcon(a) # NoError THEN ValidateIcon(a)
    ELSE IF ValidateLink(a) # NoError THEN ValidateLink(a)
    ELSE IF ValidateSeverity(a) # NoError THEN ValidateSeverity(a)
    ELSE IF ValidateCorrelationID(a) # NoError THEN ValidateCorrelationID(a)
    ELSE IF ValidateAutoResolve(a) # NoError THEN ValidateAutoResolve(a)
    ELSE IF ValidateFields(a) # NoError THEN ValidateFields(a)
    ELSE IF ValidateEscalation(a) # NoError THEN ValidateEscalation(a)
    ELSE IF ValidateWebhooks(a) # NoError THEN ValidateWebhooks(a)
    ELSE ValidateIgnoreIfTextContains(a)

\* Alert.Validate on a non-nil Alert (src/alert.go:446-492).
Validate(a) ==
    IF ValidateSlackChannelIDAndRouteKey(a) # NoError THEN ValidateSlackChannelIDAndRouteKey(a)
    ELSE IF ValidateHeaderAndText(a) # NoError THEN ValidateHeaderAndText(a)
    ELSE IF ValidateIcon(a) # NoError THEN ValidateIcon(a)
    ELSE IF ValidateLink(a) # NoError THEN ValidateLink(a)
    ELSE IF ValidateSeverity(a) # NoError THEN ValidateSeverity(a)
    ELSE IF ValidateCorrelationID(a) # NoError THEN ValidateCorrelationID(a)
    ELSE IF ValidateAutoResolve(a) # NoError THEN ValidateAutoResolve(a)
    ELSE IF ValidateFields(a) # NoError THEN ValidateFields(a)
    ELSE IF ValidateWebhooks(a) # NoError THEN ValidateWebhooks(a)
    ELSE IF ValidateEscalation(a) # NoError THEN ValidateEscalation(a)
    ELSE ValidateIgnoreIfTextContains(a)

(***************************************************************************)
(* The Alerts a producer builds.  BaseAlert is the Alert of the tests      *)
(* (Header "a", RouteKey "b") with severity error and the zero value in    *)
(* every other field; an input Alert differs from it in one field          *)
(* (SingleFieldAlerts) or in one field per failing check of Validate       *)
(* (CheckAlerts).                                                          *)
(***************************************************************************)
\* time.Now() when the Alert is built, in seconds.
Now0 == 1000000

\* A map[string]any without keys.
EmptyMap == [k \in {} |-> <<>>]

BaseWebhook ==
    [ID |-> <<"f", "o", "o">>, URL |-> <<"h", "t", "t", "p", ":", "/", "/", "f", "o", "o", ".", "b", "a", "r">>, ConfirmationText |-> <<>>, ButtonText |-> <<"p", "r", "e", "s", "s", " ", "m", "e">>,
     ButtonStyle |-> <<>>, AccessLevel |-> <<>>, DisplayMode |-> <<>>, Payload |-> EmptyMap,
     PlainTextInput |-> <<>>, CheckboxInput |-> <<>>]

BasePlainTextInput == [ID |-> <<"i", "n", "1">>, Description |-> <<>>, MinLength |-> 0, MaxLength |-> 10, Multiline |-> FALSE, InitialValue |-> <<>>]

BaseCheckboxInput == [ID |-> <<"i", "n", "2">>, Label |-> <<>>, Options |-> <<>>]

BaseCheckboxOption == [Value |-> <<"v", "1">>, Text |-> <<>>, Selected |-> FALSE]

BaseEscalation == [Severity |-> AlertError, DelaySeconds |-> 30, SlackMentions |-> <<>>, MoveToChannel |-> <<>>]

BaseAlert ==
    [Timestamp |-> Now0, CorrelationID |-> <<>>, Type |-> <<>>, Header |-> <<"a">>,
     HeaderWhenResolved |-> <<>>, Text |-> <<>>, TextWhenResolved |-> <<>>, FallbackText |-> <<>>,
     Author |-> <<>>, Host |-> <<>>, Footer |-> <<>>, Link |-> <<>>, IssueFollowUpEnabled |-> FALSE,
     AutoResolveSeconds |-> 0, AutoResolveAsInconclusive |-> FALSE, Severity |-> AlertError,
     SlackChannelID |-> <<>>, RouteKey |-> <<"b">>, Username |-> <<>>, IconEmoji |-> <<>>,
     Fields |-> <<>>, NotificationDelaySeconds |-> 0, ArchivingDelaySeconds |-> 0,
     Escalation |-> <<>>, IgnoreIfTextContains |-> <<>>, FailOnRateLimitError |-> FALSE,
     Webhooks |-> <<>>, Metadata |-> EmptyMap]

Excess == 1..MaxExcess

\* Strings around a limit of max runes: empty, padded, at the limit, at the
\* limit once trimmed, and over it by k runes: plain, of three-byte runes,
\* with white space at the cut (max-3), with an invalid byte.
LongInputs(max) ==
    {<<>>, <<" ", " ", "x", " ", "\n">>, Rep("x", max), <<" ">> \o Rep("x", max) \o <<"\n">>}
    \cup {Rep("x", max + k) : k \in Excess}
    \cup {Rep(RuneSun, max + k) : k \in Excess}
    \cup {Rep("x", max - 4) \o <<" ">> \o Rep("y", 3 + k) : k \in Excess}
    \cup {Rep("x", max - 5) \o <<" ", " ">> \o Rep("y", 3 + k) : k \in Excess}
    \cup {<<BadByte>> \o Rep("x", max + k - 1) : k \in Excess}

\* Texts: also over the limit and ending in a code fence.
TextInputs ==
    LongInputs(MaxTextLength)
    \cup {Rep("x", MaxTextLength + k - 3) \o CodeFence : k \in Excess}
    \cup {Rep("x", MaxTextLength - 7) \o <<"\t">> \o Rep("y", 3 + k) \o CodeFence : k \in Excess}
    \cup {Rep("x", 3) \o CodeFence}

\* Headers: also with embedded and trailing newlines.
HeaderInputs ==
    LongInputs(MaxHeaderLength)
    \cup {<<" ", "a", "\n", "b", "\n">>, Rep("x", MaxHeaderLength - 4) \o <<"\n">> \o Rep("y", 5)}

\* Fallback texts: also with status tokens, one of them split by another.
FallbackInputs ==
    LongInputs(MaxFallbackTextLength)
    \cup {StatusToken \o <<" ", "e", "r", "r">>, <<"e", "r", "r", " ">> \o StatusToken, <<"a", "\n", "b", " ", "\n">>,
          <<":", "s", "t", "a">> \o StatusToken \o <<"t", "u", "s", ":">>,
          StatusToken \o Rep("x", MaxFallbackTextLength + 1),
          Rep("x", MaxFallbackTextLength - 4) \o StatusToken \o Rep("x", 5)}

CaseInputs == {<<>>, <<" ", " ", "F", "o", "o", " ", "\t">>, <<"f", "o", "o">>, <<"F", "O", "O">>, <<RuneSun, "A">>, <<BadByte, "a">>}

SeverityInputs == {<<>>, <<" ", "P", "A", "N", "I", "C", " ">>, <<"c", "r", "i", "t", "i", "c", "a", "l">>, <<"C", "r", "i", "t", "i", "c", "a", "l">>, AlertPanic, AlertError, AlertWarning, AlertResolved, AlertInfo, <<"b", "a", "d">>}

ChannelInputs == {<<>>, <<" ", "c", "1", "2", "3", " ">>, <<"C", "1", "2", "3">>, <<"C", "#", "1">>, Rep("C", MaxSlackChannelIDLength), Rep("C", MaxSlackChannelIDLength + 1)}

RouteKeyInputs == {<<>>, <<"b">>, <<" ", " ", "F", "o", "o", " ", "\t">>, Rep("r", MaxRouteKeyLength), Rep("r", MaxRouteKeyLength + 1), Rep(RuneSun, 334)}

IconInputs == {<<>>, <<":", "b", "e", "l", "l", ":">>, <<" ", ":", "B", "E", "L", "L", ":", " ">>, <<"b", "e", "l", "l">>, <<":", "b", "e", ":", "l", "l", ":">>, <<":">> \o Rep("e", MaxIconEmojiLength) \o <<":">>, <<":">> \o Rep("e", MaxIconEmojiLength + 1) \o <<":">>, <<":", ":">>}

URLInputs == {<<>>, <<"h", "t", "t", "p", ":", "/", "/", "f", "o", "o", ".", "b", "a", "r">>, <<"h", "t", "t", "p", "s", ":", "/", "/", "f", "o", "o", ".", "b", "a", "r", "/", "x", "?", "y", "=", "1">>, <<"h", "t", "t", "p", ":", "/", "/">>, <<"h", "t", "t", "p", "s", ":", "/", "/">>, <<"m", "y", "-", "c", "u", "s", "t", "o", "m", "-", "h", "a", "n", "d", "l", "e", "r", ":", "a", "c", "t", "i", "o", "n">>, <<"c", "u", "s", "t", "o", "m", "-", "h", "a", "n", "d", "l", "e", "r", NUL, "i", "n", "v", "a", "l", "i", "d">>, <<"/", "r", "e", "l", "a", "t", "i", "v", "e", "/", "p", "a", "t", "h">>, <<"f", "o", "o", ".", "b", "a", "r">>, <<"h", "t", "t", "p", ":", "/", "/", "f", "o", "o", ".", "b", "a", "r", ":", "8", "0", "8", "0", "/", "x">>, <<"h", "t", "t", "p", ":", "/", "/", "f", "o", "o", ".", "b", "a", "r", ":", "8", "0", "a">>, <<"h", "t", "t", "p", ":", "/", "/", "f", "o", "o", " ", "b", "a", "r">>, <<" ", "h", "t", "t", "p", ":", "/", "/", "f", "o", "o", ".", "b", "a", "r", " ">>, <<"*">>, <<":", "f", "o", "o">>, <<"1", "h", "t", "t", "p", ":", "/", "/", "x">>, <<"h", "t", "t", "p", ":", "/", "/", "f", "o", "o", ".", "b", "a", "r">> \o <<"/">> \o Rep("p", MaxWebhookURLLength - 14)}

CorrelationInputs == {<<>>, <<" ", " ", "F", "o", "o", " ", "\t">>, Rep("c", MaxCorrelationIDLength), Rep("c", MaxCorrelationIDLength + 1), Rep(RuneSun, 167), Rep(RuneSun, MaxCorrelationIDLength)}

DelayInputs == {-5, -1, 0, 1, 30}

AutoResolveInputs == {0, MinAutoResolveSeconds - 1, MinAutoResolveSeconds, MaxAutoResolveSeconds, MaxAutoResolveSeconds + 1}

\* time.Time{}, the timestamp of an Alert that was given none: 1 January of
\* the year 1, which lies before every instant the integers of the model
\* hold.  It is kept as the earliest instant of the model, more than
\* MaxTimestampAge before every reading of the clock, as the zero Time is
\* (time.Since of it is the largest Duration).
ZeroTime == 0 - 2000000000

TimestampInputs == {ZeroTime, 0, Now0 - MaxTimestampAge - 1, Now0 - MaxTimestampAge, Now0 - 10, Now0, Now0 + 10}

FieldPtr(title, value) == <<[Title |-> title, Value |-> value]>>

FieldsInputs ==
    {<<>>, <<<<>>>>, <<<<>>, FieldPtr(<<" ", " ", "F", "o", "o", " ", "\t">>, <<" ", " ", "x", " ", "\n">>)>>,
     [i \in 1..MaxFieldCount |-> FieldPtr(<<"t">>, <<"v">>)],
     [i \in 1..(MaxFieldCount + 1) |-> FieldPtr(<<"t">>, <<"v">>)]}
    \cup {<<FieldPtr(t, <<"v">>)>> : t \in LongInputs(MaxFieldTitleLength)}
    \cup {<<FieldPtr(<<"t">>, v)>> : v \in LongInputs(MaxFieldValueLength)}

IgnoreInputs ==
    {<<>>, <<<<"f", "o", "o">>, <<" ", " ", "F", "o", "o", " ", "\t">>>>, <<<<"f", "o", "o">>, Rep("i", MaxIgnoreIfTextContainsLength)>>,
     <<<<"f", "o", "o">>, Rep("i", MaxIgnoreIfTextContainsLength + 1)>>, <<Rep(RuneSun, 334)>>,
     [i \in 1..MaxIgnoreIfTextContainsCount |-> <<"f", "o", "o">>],
     [i \in 1..(MaxIgnoreIfTextContainsCount + 1) |-> <<"f", "o", "o">>]}

\* Lists are built from a pool by choosing at most MaxList elements.
MaxList == 2

SeqsUpTo(pool, n) == UNION {[1..k -> pool] : k \in 0..n}

PlainPtr(r) == <<r>>

PlainTextInputPool ==
    {<<>>, PlainPtr(BasePlainTextInput),
     PlainPtr([BasePlainTextInput EXCEPT !.ID = <<"i", "n", "2">>]),
     PlainPtr([BasePlainTextInput EXCEPT !.ID = <<" ", "i", "n", "1", " ">>, !.Description = <<" ", " ", "x", " ", "\n">>, !.InitialValue = <<" ", " ", "x", " ", "\n">>])}

PlainTextInputVariants ==
    {PlainPtr([BasePlainTextInput EXCEPT !.ID = <<>>]),
     PlainPtr([BasePlainTextInput EXCEPT !.ID = Rep("i", MaxWebhookInputIDLength)]),
     PlainPtr([BasePlainTextInput EXCEPT !.ID = Rep("i", MaxWebhookInputIDLength + 1)]),
     PlainPtr([BasePlainTextInput EXCEPT !.Description = Rep("d", MaxWebhookInputDescriptionLength + 1)]),
     PlainPtr([BasePlainTextInput EXCEPT !.MinLength = -1]),
     PlainPtr([BasePlainTextInput EXCEPT !.MinLength = MaxWebhookInputTextLength + 1, !.MaxLength = MaxWebhookInputTextLength + 1]),
     PlainPtr([BasePlainTextInput EXCEPT !.MaxLength = -1]),
     PlainPtr([BasePlainTextInput EXCEPT !.MaxLength = MaxWebhookInputTextLength + 1]),
     PlainPtr([BasePlainTextInput EXCEPT !.MaxLength = MaxWebhookInputTextLength]),
     PlainPtr([BasePlainTextInput EXCEPT !.MinLength = 5, !.MaxLength = 3]),
     PlainPtr([BasePlainTextInput EXCEPT !.MaxLength = 2, !.InitialValue = <<"a", "b", "c">>]),
     PlainPtr([BasePlainTextInput EXCEPT !.MaxLength = 2, !.InitialValue = <<" ", "a", " ">>]),
     PlainPtr([BasePlainTextInput EXCEPT !.MinLength = 2, !.InitialValue = <<"a">>]),
     PlainPtr([BasePlainTextInput EXCEPT !.MinLength = 2, !.InitialValue = <<RuneSun>>])}

PlainTextInputLists ==
    SeqsUpTo(PlainTextInputPool, MaxList)
    \cup {<<v>> : v \in PlainTextInputVariants}
    \cup {[i \in 1..n |-> PlainPtr([BasePlainTextInput EXCEPT !.ID = Rep("i", i)])] : n \in {MaxWebhookPlainTextInputCount, MaxWebhookPlainTextInputCount + 1}}

OptionPtr(value, text) == <<[Value |-> value, Text |-> text, Selected |-> FALSE]>>

CheckboxOptionPool == {<<>>, OptionPtr(<<"v", "1">>, <<>>), OptionPtr(<<"v", "2">>, <<" ", " ", "x", " ", "\n">>)}

CheckboxOptionLists ==
    SeqsUpTo(CheckboxOptionPool, MaxList)
    \cup {<<OptionPtr(<<>>, <<>>)>>,
          <<OptionPtr(Rep("v", MaxCheckboxOptionValueLength), <<>>)>>,
          <<OptionPtr(Rep("v", MaxCheckboxOptionValueLength + 1), <<>>)>>,
          <<OptionPtr(<<"v", "1">>, Rep("t", MaxWebhookCheckboxOptionTextLength))>>,
          <<OptionPtr(<<"v", "1">>, Rep("t", MaxWebhookCheckboxOptionTextLength + 1))>>}
    \cup {[i \in 1..n |-> OptionPtr(Rep("v", i), <<>>)] : n \in {MaxWebhookCheckboxOptionCount, MaxWebhookCheckboxOptionCount + 1}}

CheckboxPtr(id, label, options) == <<[ID |-> id, Label |-> label, Options |-> options]>>

CheckboxInputPool == {<<>>, CheckboxPtr(<<"i", "n", "2">>, <<>>, <<>>), CheckboxPtr(<<"i", "n", "1">>, <<" ", " ", "x", " ", "\n">>, <<>>), CheckboxPtr(<<" ", "i", "n", "1", " ">>, <<>>, <<>>)}

CheckboxInputLists ==
    SeqsUpTo(CheckboxInputPool, MaxList)
    \cup {<<CheckboxPtr(<<"i", "n", "2">>, <<>>, o)>> : o \in CheckboxOptionLists}
    \cup {<<CheckboxPtr(<<>>, <<>>, <<>>)>>,
          <<CheckboxPtr(Rep("i", MaxWebhookInputIDLength), <<>>, <<>>)>>,
          <<CheckboxPtr(Rep("i", MaxWebhookInputIDLength + 1), <<>>, <<>>)>>,
          <<CheckboxPtr(<<"i", "n", "2">>, Rep("l", MaxWebhookInputLabelLength), <<>>)>>,
          <<CheckboxPtr(<<"i", "n", "2">>, Rep("l", MaxWebhookInputLabelLength + 1), <<>>)>>}
    \cup {[i \in 1..n |-> CheckboxPtr(Rep("c", i), <<>>, <<>>)] : n \in {MaxWebhookCheckboxInputCount, MaxWebhookCheckboxInputCount + 1}}

\* A map[string]any with n keys.
PayloadOf(n) == [k \in {Rep("k", i) : i \in 1..n} |-> <<"v">>]

HookPtr(r) == <<r>>

\* Webhooks that differ from BaseWebhook in one field, or in both input lists.
WebhookVariants ==
    {HookPtr([BaseWebhook EXCEPT !.ID = v]) : v \in {<<>>, <<" ", " ", "F", "o", "o", " ", "\t">>, Rep("w", MaxWebhookIDLength), Rep("w", MaxWebhookIDLength + 1), Rep(RuneSun, 34)}}
    \cup {HookPtr([BaseWebhook EXCEPT !.URL = v]) : v \in URLInputs}
    \cup {HookPtr([BaseWebhook EXCEPT !.ButtonText = v]) : v \in {<<>>, <<" ", " ", "x", " ", "\n">>, Rep("b", MaxWebhookButtonTextLength), Rep("b", MaxWebhookButtonTextLength + 1), Rep(RuneSun, 9)}}
    \cup {HookPtr([BaseWebhook EXCEPT !.ConfirmationText = v]) : v \in {<<" ", " ", "x", " ", "\n">>, Rep("c", MaxWebhookConfirmationTextLength), Rep("c", MaxWebhookConfirmationTextLength + 1)}}
    \cup {HookPtr([BaseWebhook EXCEPT !.ButtonStyle = v]) : v \in {<<"d", "e", "f", "a", "u", "l", "t">>, <<" ", "d", "e", "f", "a", "u", "l", "t">>, WebhookButtonStylePrimary, WebhookButtonStyleDanger, <<"b", "a", "d">>}}
    \cup {HookPtr([BaseWebhook EXCEPT !.AccessLevel = v]) : v \in {WebhookAccessLevelGlobalAdmins, WebhookAccessLevelChannelAdmins, WebhookAccessLevelChannelMembers, <<"b", "a", "d">>}}
    \cup {HookPtr([BaseWebhook EXCEPT !.DisplayMode = v]) : v \in {WebhookDisplayModeAlways, WebhookDisplayModeOpenIssue, WebhookDisplayModeResolvedIssue, <<"b", "a", "d">>}}
    \cup {HookPtr([BaseWebhook EXCEPT !.Payload = PayloadOf(n)]) : n \in {1, MaxWebhookPayloadCount, MaxWebhookPayloadCount + 1}}
    \cup {HookPtr([BaseWebhook EXCEPT !.PlainTextInput = v]) : v \in PlainTextInputLists}
    \cup {HookPtr([BaseWebhook EXCEPT !.CheckboxInput = v]) : v \in CheckboxInputLists}
    \cup {HookPtr([BaseWebhook EXCEPT !.PlainTextInput = <<PlainPtr(BasePlainTextInput)>>, !.CheckboxInput = v]) : v \in SeqsUpTo(CheckboxInputPool, MaxList)}

WebhookPool ==
    {<<>>, HookPtr(BaseWebhook), HookPtr([BaseWebhook EXCEPT !.ID = <<"b", "a", "r">>]),
     HookPtr([BaseWebhook EXCEPT !.ID = <<" ", "f", "o", "o", " ">>, !.PlainTextInput = <<PlainPtr(BasePlainTextInput)>>]),
     HookPtr([BaseWebhook EXCEPT !.ID = <<"b", "a", "r">>, !.PlainTextInput = <<PlainPtr(BasePlainTextInput)>>, !.CheckboxInput = <<CheckboxPtr(<<"i", "n", "1">>, <<>>, <<>>)>>]),
     HookPtr([BaseWebhook EXCEPT !.ID = <<>>])}

WebhooksInputs ==
    SeqsUpTo(WebhookPool, MaxList)
    \cup {<<v>> : v \in WebhookVariants}
    \cup {<<HookPtr(BaseWebhook), v>> : v \in {HookPtr([BaseWebhook EXCEPT !.URL = <<>>]), HookPtr([BaseWebhook EXCEPT !.ID = Rep("w", MaxWebhookIDLength + 1)])}}
    \cup {[i \in 1..n |-> HookPtr([BaseWebhook EXCEPT !.ID = Rep("w", i)])] : n \in {MaxWebhookCount, MaxWebhookCount + 1}}
    \cup {[i \in 1..n |-> HookPtr(BaseWebhook)] : n \in {MaxWebhookCount, MaxWebhookCount + 1}}
    \cup {<<HookPtr([BaseWebhook EXCEPT !.PlainTextInput = <<PlainPtr(BasePlainTextInput)>>, !.CheckboxInput = <<CheckboxPtr(<<"i", "n", "2">>, <<>>, <<>>)>>]),
            HookPtr([BaseWebhook EXCEPT !.ID = <<"b", "a", "r">>, !.PlainTextInput = <<PlainPtr(BasePlainTextInput)>>, !.CheckboxInput = v])>> :
          v \in {<<>>, <<CheckboxPtr(<<"i", "n", "2">>, <<>>, <<>>)>>, <<CheckboxPtr(<<"i", "n", "2">>, <<>>, <<>>), CheckboxPtr(<<"i", "n", "1">>, <<>>, <<>>)>>}}

EscPtr(severity, delay) == <<[BaseEscalation EXCEPT !.Severity = severity, !.DelaySeconds = delay]>>

EscalationPool ==
    {<<>>, EscPtr(AlertError, 30), EscPtr(AlertPanic, 30), EscPtr(AlertPanic, 59), EscPtr(AlertWarning, 90), EscPtr(AlertError, 29)}

EscalationVariants ==
    {EscPtr(v, 30) : v \in {<<" ", "P", "A", "N", "I", "C", " ">>, AlertResolved, AlertInfo, <<>>, <<"b", "a", "d">>}}
    \cup {EscPtr(AlertError, d) : d \in {-1, 0, 60, MaxAutoResolveSeconds}}
    \cup {<<[BaseEscalation EXCEPT !.MoveToChannel = v]>> : v \in {<<" ", "c", "1", "2", "3", " ">>, <<"C", "1", "2", "3">>, <<"C", "#", "1">>, Rep("C", MaxSlackChannelIDLength + 1)}}
    \cup {<<[BaseEscalation EXCEPT !.SlackMentions = v]>> : v \in
            {<<MentionHere>>, <<MentionChannel, <<"<", "@", "U", "1", "2", "3", "4", "5", "6", "7", "8", ">">>>>, <<<<" ", "<", "!", "h", "e", "r", "e", ">", " ">>>>, <<<<"h", "e", "r", "e">>>>, <<<<"<", "@", ">">>>>, <<<<"<", "@", "U", " ", "1", ">">>>>,
             <<<<"<", "@">> \o Rep("U", MaxMentionLength) \o <<">">>>>,
             <<<<"<", "@">> \o Rep("U", MaxMentionLength + 1) \o <<">">>>>,
             [i \in 1..MaxEscalationSlackMentionCount |-> MentionHere],
             [i \in 1..(MaxEscalationSlackMentionCount + 1) |-> MentionHere]}}

\* Escalation lists have at most MaxEscalations elements of the pool.
MaxEscalations == 3

EscalationInputs ==
    SeqsUpTo(EscalationPool, MaxEscalations)
    \cup {<<v>> : v \in EscalationVariants}
    \cup {<<EscPtr(AlertError, 30), EscPtr(AlertError, 60), EscPtr(AlertError, 90), EscPtr(AlertError, 120)>>,
          <<EscPtr(AlertError, 120), EscPtr(AlertError, 90), EscPtr(AlertError, 60)>>,
          <<EscPtr(AlertError, 60), EscPtr(AlertError, 30), EscPtr(AlertError, 90)>>}

\* The values a producer gives to one field of the Alert.
FieldInputs ==
    [Timestamp |-> TimestampInputs,
     CorrelationID |-> CorrelationInputs,
     Type |-> CaseInputs,
     Header |-> HeaderInputs,
     HeaderWhenResolved |-> HeaderInputs,
     Text |-> TextInputs,
     TextWhenResolved |-> TextInputs,
     FallbackText |-> FallbackInputs,
     Author |-> LongInputs(MaxAuthorLength),
     Host |-> LongInputs(MaxHostLength),
     Footer |-> LongInputs(MaxFooterLength),
     Link |-> URLInputs,
     Severity |-> SeverityInputs,
     SlackChannelID |-> ChannelInputs,
     RouteKey |-> RouteKeyInputs,
     Username |-> LongInputs(MaxUsernameLength),
     IconEmoji |-> IconInputs,
     Fields |-> FieldsInputs,
     NotificationDelaySeconds |-> DelayInputs,
     ArchivingDelaySeconds |-> DelayInputs,
     Escalation |-> EscalationInputs,
     IgnoreIfTextContains |-> IgnoreInputs,
     Webhooks |-> WebhooksInputs]

\* Alerts that differ from BaseAlert in one field.
SingleFieldAlerts == UNION {{[BaseAlert EXCEPT ![f] = v] : v \in FieldInputs[f]} : f \in DOMAIN FieldInputs}

\* Alerts with IssueFollowUpEnabled set.
FollowUpAlerts == {[BaseAlert EXCEPT !.IssueFollowUpEnabled = TRUE, !.AutoResolveSeconds = v, !.AutoResolveAsInconclusive = b] : v \in AutoResolveInputs, b \in BOOLEAN}

\* For each of the eleven checks of Validate, in its order, a change of
\* BaseAlert that makes that check fail and no other.
FailCheck(a, i) ==
    CASE i = 1 -> [a EXCEPT !.SlackChannelID = <<"C", "#", "1">>]
      [] i = 2 -> [a EXCEPT !.Header = <<>>]
      [] i = 3 -> [a EXCEPT !.IconEmoji = <<"b", "e", "l", "l">>]
      [] i = 4 -> [a EXCEPT !.Link = <<"/", "r", "e", "l", "a", "t", "i", "v", "e", "/", "p", "a", "t", "h">>]
      [] i = 5 -> [a EXCEPT !.Severity = <<"b", "a", "d">>]
      [] i = 6 -> [a EXCEPT !.CorrelationID = Rep("c", MaxCorrelationIDLength + 1)]
      [] i = 7 -> [a EXCEPT !.IssueFollowUpEnabled = TRUE, !.AutoResolveSeconds = MinAutoResolveSeconds - 1]
      [] i = 8 -> [a EXCEPT !.Fields = [k \in 1..(MaxFieldCount + 1) |-> FieldPtr(<<"t">>, <<"v">>)]]
      [] i = 9 -> [a EXCEPT !.Webhooks = <<HookPtr([BaseWebhook EXCEPT !.ID = <<>>])>>]
      [] i = 10 -> [a EXCEPT !.Escalation = <<EscPtr(AlertError, MinEscalationDelaySeconds - 1)>>]
      [] i = 11 -> [a EXCEPT !.IgnoreIfTextContains = [k \in 1..(MaxIgnoreIfTextContainsCount + 1) |-> <<"f", "o", "o">>]]

NumChecks == 11

RECURSIVE FailChecks(_, _, _)
FailChecks(a, S, i) ==
    IF i > NumChecks THEN a
    ELSE FailChecks(IF i \in S THEN FailCheck(a, i) ELSE a, S, i + 1)

\* An input Alert fails at most MaxFailing of the checks.
MaxFailing == 3

\* Alerts that fail a chosen set of the checks of Validate.
CheckAlerts == {FailChecks(BaseAlert, S, 1) : S \in {T \in SUBSET (1..NumChecks) : Cardinality(T) <= MaxFailing}}

(***************************************************************************)
(* Specification Spec: one Alert, built by a producer, on which Clean and  *)
(* Validate are called in any order.                                       *)
(*   alert   the Alert (Clean normalises it in place)                      *)
(*   input   the Alert as the producer built it                            *)
(*   once    the Alert as the first call of Clean left it                  *)
(*   cleans  the number of calls of Clean so far                           *)
(*   call    the validation method called on the Alert as it is now, ""    *)
(*           if none has been called since the Alert last changed          *)
(*   err     what that method returned                                     *)
(*   now     the clock, in seconds                                         *)
(***************************************************************************)
IdleHash == ha = <<>> /\ hb = <<>> /\ hids = <<>>

IdleCrypto == key = <<>> /\ plain = <<>> /\ sealed = <<>> /\ blob = <<>> /\ dkey = <<>> /\ opened = <<>>

IdleCallback == cb = <<>> /\ got = <<>>

IdleStore == issues = {} /\ fresh = 0 /\ pc = <<>> /\ seen = <<>> /\ archived = {} /\ res = <<>>

IdleQueue ==
    /\ items = <<>> /\ sink = <<>> /\ sends = <<>> /\ held = <<>>
    /\ rpc = "" /\ ctx = FALSE /\ ret = <<>> /\ qn = 0

IdlePayload == enc = <<>> /\ pout = <<>>

Init ==
    /\ alert \in SingleFieldAlerts \cup FollowUpAlerts \cup CheckAlerts
    /\ input = alert
    /\ once = alert
    /\ cleans = 0
    /\ call = ""
    /\ err = NoError
    /\ now = Now0
    /\ IdleHash
    /\ IdleCrypto
    /\ IdleCallback
    /\ IdleStore
    /\ IdleQueue
    /\ IdlePayload

\* a.Clean(), called dt seconds after the previous step.
CallClean ==
    /\ cleans < MaxCleans
    /\ \E dt \in 0..(Now0 + MaxTicks - now) :
        /\ now' = now + dt
        /\ alert' = Clean(alert, now + dt)
    /\ cleans' = cleans + 1
    /\ once' = IF cleans = 0 THEN alert' ELSE once
    /\ call' = ""
    /\ err' = NoError
    /\ UNCHANGED <<input, hashVars, cryptoVars, callbackVars, storeVars, queueVars, payloadVars>>

\* a.Validate() as it would be if it normalised the Alert before checking it.
CallValidateCleaning ==
    /\ call = ""
    /\ call' = "Validate"
    /\ alert' = Clean(alert, now)
    /\ err' = Validate(alert')
    /\ UNCHANGED <<input, once, cleans, now, hashVars, cryptoVars, callbackVars, storeVars, queueVars, payloadVars>>

\* a.Validate()
CallValidate ==
    /\ call = ""
    /\ call' = "Validate"
    /\ err' = Validate(alert)
    /\ UNCHANGED <<alert, input, once, cleans, now, hashVars, cryptoVars, callbackVars, storeVars, queueVars, payloadVars>>

\* a.ValidateWebhooks()
CallValidateWebhooks ==
    /\ call = ""
    /\ call' = "ValidateWebhooks"
    /\ err' = ValidateWebhooks(alert)
    /\ UNCHANGED <<alert, input, once, cleans, now, hashVars, cryptoVars, callbackVars, storeVars, queueVars, payloadVars>>

\* a.ValidateEscalation()
CallValidateEscalation ==
    /\ call = ""
    /\ call' = "ValidateEscalation"
    /\ err' = ValidateEscalation(alert)
    /\ UNCHANGED <<alert, input, once, cleans, now, hashVars, cryptoVars, callbackVars, storeVars, queueVars, payloadVars>>

Next == CallClean \/ CallValidate \/ CallValidateWebhooks \/ CallValidateEscalation

Spec == Init /\ [][Next]_vars

(***************************************************************************)
(* Properties of Clean and of the validation methods, checked under Spec.  *)
(***************************************************************************)
\* The text fields Clean shortens, with the greatest rune count of each.
TruncatedFields ==
    [Header |-> MaxHeaderLength, HeaderWhenResolved |-> MaxHeaderLength,
     Text |-> MaxTextLength, TextWhenResolved |-> MaxTextLength,
     FallbackText |-> MaxFallbackTextLength, Author |-> MaxAuthorLength,
     Host |-> MaxHostLength, Footer |-> MaxFooterLength, Username |-> MaxUsernameLength]

\* The cut fell between runes: s holds an invalid byte only if from did.
CutBetweenRunes(s, from) == BadByte \in Range(s) => BadByte \in Range(from)

\* The eleven checks of Validate in the order the documentation gives.
Checks(a) ==
    <<ValidateSlackChannelIDAndRouteKey(a), ValidateHeaderAndText(a), ValidateIcon(a),
      ValidateLink(a), ValidateSeverity(a), ValidateCorrelationID(a), ValidateAutoResolve(a),
      ValidateFields(a), ValidateWebhooks(a), ValidateEscalation(a),
      ValidateIgnoreIfTextContains(a)>>

Failing(a) == {i \in 1..NumChecks : Checks(a)[i] # NoError}

\* C1: a second Clean, run while the timestamp is still recent enough to be
\* kept, leaves every field as the first Clean left it.
C1_CleanIdempotent ==
    (cleans >= 2 /\ alert.Timestamp = input.Timestamp) => alert = once

\* C2: Validate returns the error of the first failing check in the order
\* channel/route key, header/text, icon, link, severity, correlation ID,
\* auto-resolve, field count, webhooks, escalation, ignore list, and nil
\* exactly when every check passes.
C2_ValidateFirstFailure ==
    call = "Validate" =>
        /\ (err = NoError) <=> (Failing(alert) = {})
        /\ Failing(alert) # {} => err = Checks(alert)[SetMin(Failing(alert))]

\* C2 witness: Validate has run on an Alert that fails two or more checks
\* and has returned the error of the earlier one.
C2_Witness ==
    /\ call = "Validate"
    /\ Cardinality(Failing(alert)) >= 2
    /\ err = Checks(alert)[SetMin(Failing(alert))]

\* C3: after Clean each shortened text field has at most its maximum number
\* of runes (the code fence of Text included), so has each title and value
\* of Fields, and no field holds part of a rune that the input held whole.
C3_TruncationSafety ==
    cleans >= 1 =>
        /\ \A f \in DOMAIN TruncatedFields :
              /\ RuneCountInString(alert[f]) <= TruncatedFields[f]
              /\ CutBetweenRunes(alert[f], input[f])
        /\ \A i \in 1..Len(alert.Fields) :
              alert.Fields[i] # <<>> =>
                 /\ RuneCountInString(alert.Fields[i][1].Title) <= MaxFieldTitleLength
                 /\ RuneCountInString(alert.Fields[i][1].Value) <= MaxFieldValueLength
                 /\ CutBetweenRunes(alert.Fields[i][1].Title, input.Fields[i][1].Title)
                 /\ CutBetweenRunes(alert.Fields[i][1].Value, input.Fields[i][1].Value)

\* C3 witness: Clean has shortened a header of multi-byte runes that was
\* over the limit.
C3_Witness ==
    /\ cleans >= 1
    /\ RuneCountInString(input.Header) > MaxHeaderLength
    /\ RuneSun \in Range(input.Header)
    /\ RuneCountInString(alert.Header) = MaxHeaderLength
    /\ HasSuffix(alert.Header, Ellipsis)

\* The list with the entries of list before index j (0-based).
Before(list, j) == SubSeq(list, 1, j)

\* C9: if ValidateEscalation returns nil the list has at most 3 entries,
\* none nil, each with a delay of 30 seconds or more and 30 seconds or more
\* after the entry before it; and the delays [30, 59] are rejected with the
\* error of entry 1 being too close to the previous escalation.
C9_EscalationAccepted ==
    call = "ValidateEscalation" =>
        LET esc == alert.Escalation
        IN /\ err = NoError =>
                /\ Len(esc) <= 3
                /\ \A i \in 1..Len(esc) : esc[i] # <<>> /\ esc[i][1].DelaySeconds >= 30
                /\ \A i \in 2..Len(esc) : esc[i][1].DelaySeconds - esc[i - 1][1].DelaySeconds >= 30
           /\ ( /\ Len(esc) = 2 /\ esc[1] # <<>> /\ esc[2] # <<>>
                /\ esc[1][1].DelaySeconds = 30 /\ esc[2][1].DelaySeconds = 59
                /\ ValidateEscalation([alert EXCEPT !.Escalation = Before(esc, 1)]) = NoError )
              => err = Err("escalation[%d].delaySeconds '%d' is too small compared to previous escalation, expected diff >=%d", <<1>>, 59)

\* C9 witness: ValidateEscalation has accepted a list of two or more entries.
C9_Witness ==
    /\ call = "ValidateEscalation"
    /\ err = NoError
    /\ Len(alert.Escalation) >= 2

\* C10: if ValidateWebhooks returns nil there are at most 5 webhooks, none
\* nil, each with a non-empty ID of at most 100 bytes, and no two with the
\* same ID; and a webhook at index j whose ID an earlier webhook has, after
\* webhooks that all pass, is rejected with 'webhook[j].id must be unique'.
C10_WebhooksAccepted ==
    call = "ValidateWebhooks" =>
        LET hooks == alert.Webhooks
        IN /\ err = NoError =>
                /\ Len(hooks) <= 5
                /\ \A i \in 1..Len(hooks) :
                      /\ hooks[i] # <<>>
                      /\ hooks[i][1].ID # <<>>
                      /\ ByteLen(hooks[i][1].ID) <= 100
                      /\ RuneCountInString(hooks[i][1].ID) <= 100
                /\ \A i, j \in 1..Len(hooks) : i # j => hooks[i][1].ID # hooks[j][1].ID
           /\ \A j \in 1..Len(hooks) :
                ( /\ Len(hooks) <= 5
                  /\ ValidateWebhooks([alert EXCEPT !.Webhooks = Before(hooks, j - 1)]) = NoError
                  /\ hooks[j] # <<>>
                  /\ \E i \in 1..(j - 1) : hooks[i][1].ID = hooks[j][1].ID )
                => err = Err("webhook[%d].id must be unique", <<j - 1>>, 0)

\* C10 witness: ValidateWebhooks has accepted two or more webhooks.
C10_Witness ==
    /\ call = "ValidateWebhooks"
    /\ err = NoError
    /\ Len(alert.Webhooks) >= 2

(***************************************************************************)
(* Specification SpecHash: UniqueID on two Alerts.                         *)
(*   ha, hb  the two Alerts                                                *)
(*   hids    nil before the calls, then the two IDs                        *)
(*                                                                         *)
(* A time.Time is its instant, in whole seconds since the Unix epoch, so   *)
(* UTC() leaves it as it is; Format writes the RFC 3339 text of an instant *)
(* of January 1970.  SHA-256 and base64 are kept as constructors around    *)
(* the bytes written to the hash: SHA-256 is taken to have no collisions   *)
(* and base64 has none, so two IDs are equal exactly when the streams are. *)
(***************************************************************************)
SecondsPerDay == 86400

DigitOf(n) == CHOOSE d \in Digits : d = ToString(n)

\* %02d
TwoDigits(n) == <<DigitOf(n \div 10), DigitOf(n % 10)>>

\* a.Timestamp.UTC().Format(time.RFC3339Nano) of src/alert.go:297, for an
\* instant of January 1970 with no fraction of a second.
FormatRFC3339Nano(t) ==
    <<"1", "9", "7", "0", "-", "0", "1", "-">> \o TwoDigits(t \div SecondsPerDay + 1)
        \o <<"T">> \o TwoDigits((t % SecondsPerDay) \div 3600)
        \o <<":">> \o TwoDigits((t % 3600) \div 60)
        \o <<":">> \o TwoDigits(t % 60) \o <<"Z">>

\* The bytes the loop of hash writes for input[i..]: each string and then
\* the delimiter.
RECURSIVE written(_, _)
written(in, i) ==
    IF i > Len(in) THEN <<>>
    ELSE in[i] \o <<NUL>> \o written(in, i + 1)

Sha256(bytes) == <<"sha256", bytes>>

URLEncodeToString(bs) == <<"base64url", bs>>

\* hash (src/alert.go:880-893)
hash(in) == URLEncodeToString(Sha256(written(in, 1)))

\* The arguments UniqueID passes to hash.
HashArguments(a) ==
    <<<<"a", "l", "e", "r", "t">>, a.SlackChannelID, a.RouteKey, a.CorrelationID,
      FormatRFC3339Nano(a.Timestamp), a.Header, a.Text>>

\* Alert.UniqueID (src/alert.go:296-298)
UniqueID(a) == hash(HashArguments(a))

\* The strings of the hashed Alerts have at most MaxHashLen bytes, each "a"
\* or NUL.
MaxHashLen == 2

HashStrings == SeqsUpTo({"a", NUL}, MaxHashLen)

HashAlerts ==
    {[BaseAlert EXCEPT !.Header = h, !.Text = x, !.Timestamp = t] :
        h \in HashStrings, x \in HashStrings, t \in {Now0, Now0 + 1}}

IdleAlert ==
    /\ alert = BaseAlert /\ input = BaseAlert /\ once = BaseAlert
    /\ cleans = 0 /\ call = "" /\ err = NoError /\ now = Now0

InitHash ==
    /\ ha \in HashAlerts
    /\ hb \in HashAlerts
    /\ hids = <<>>
    /\ IdleAlert
    /\ IdleCrypto
    /\ IdleCallback
    /\ IdleStore
    /\ IdleQueue
    /\ IdlePayload

\* ha.UniqueID() and hb.UniqueID()
CallUniqueID ==
    /\ hids = <<>>
    /\ hids' = <<UniqueID(ha), UniqueID(hb)>>
    /\ UNCHANGED <<ha, hb, alertVars, cryptoVars, callbackVars, storeVars, queueVars, payloadVars>>

NextHash == CallUniqueID

SpecHash == InitHash /\ [][NextHash]_vars

\* The tuple of C4: the six fields, the timestamp as formatted.
HashTuple(a) ==
    <<a.SlackChannelID, a.RouteKey, a.CorrelationID, FormatRFC3339Nano(a.Timestamp), a.Header, a.Text>>

\* C4: two Alerts whose tuples differ get different IDs, whatever strings
\* the fields hold, and two Alerts with the same tuple get the same ID.
C4_UniqueIDInjective ==
    hids # <<>> =>
        /\ HashTuple(ha) # HashTuple(hb) => hids[1] # hids[2]
        /\ HashTuple(ha) = HashTuple(hb) => hids[1] = hids[2]

(***************************************************************************)
(* Specification SpecCrypto: Encrypt, a blob damaged in storage, Decrypt.  *)
(*                                                                         *)
(* A byte is a tuple.  Keys, nonces and plaintexts are made of the bytes   *)
(* <<0>> and <<1>>; the counter mode of GCM is an exclusive or with a key  *)
(* stream; a byte of the authentication tag is the tuple of what it is     *)
(* computed from, so that two tags are equal exactly when key, nonce and   *)
(* ciphertext are (no forgery).  crypto/rand is taken not to fail.         *)
(*   key     the key given to Encrypt                                      *)
(*   plain   the data given to Encrypt                                     *)
(*   sealed  nil before Encrypt, then a pointer to what it returned        *)
(*   blob    the bytes kept for Decrypt: what Encrypt returned, then       *)
(*           possibly truncated or with one byte changed                   *)
(*   dkey    the key given to Decrypt                                      *)
(*   opened  nil before Decrypt, then a pointer to what it returned        *)
(***************************************************************************)
Bits == {<<0>>, <<1>>}

Xor(a, b) == IF a = b THEN <<0>> ELSE <<1>>

\* What a function with results ([]byte, error) returns; "" is the nil error.
Returned(out, e) == [out |-> out, err |-> e]

\* aes.NewCipher: whether it takes the key (lines 12 and 32).
NewCipher(k) == Len(k) \in {16, 24, 32}

KeySizeError == "crypto/aes: invalid key size"

\* gcm.NonceSize() and the size of the tag of cipher.NewGCM.
NonceSize == 12

TagSize == 16

\* Byte i of the key stream of the counter mode under key k and nonce n.
KeyStream(k, n, i) == Xor(k[((i - 1) % Len(k)) + 1], n[((i - 1) % Len(n)) + 1])

Ctr(k, n, data) == [i \in 1..Len(data) |-> Xor(data[i], KeyStream(k, n, i))]

Tag(k, n, ciphertext) == [j \in 1..TagSize |-> <<"tag", j, k, n, ciphertext>>]

\* gcm.Seal(dst, nonce, plaintext, nil): dst, the ciphertext and the tag.
Seal(k, dst, n, plaintext) == dst \o Ctr(k, n, plaintext) \o Tag(k, n, Ctr(k, n, plaintext))

OpenError == "cipher: message authentication failed"

\* gcm.Open(nil, nonce, ciphertext, nil)
Open(k, n, data) ==
    IF Len(data) < TagSize THEN Returned(<<>>, OpenError)
    ELSE LET ciphertext == SubSeq(data, 1, Len(data) - TagSize)
             tag == SubSeq(data, Len(data) - TagSize + 1, Len(data))
         IN IF tag # Tag(k, n, ciphertext) THEN Returned(<<>>, OpenError)
            ELSE Returned(Ctr(k, n, ciphertext), "")

\* Encrypt that seals into an empty buffer, gcm.Seal(nil, nonce, data, nil):
\* the nonce is not part of what it returns.
EncryptWithoutNonce(k, data, n) ==
    IF ~NewCipher(k) THEN Returned(<<>>, KeySizeError)
    ELSE Returned(Seal(k, <<>>, n, data), "")

\* Encrypt (src/encryption.go:11-29), n the nonce read from rand.Reader.
Encrypt(k, data, n) ==
    IF ~NewCipher(k) THEN Returned(<<>>, KeySizeError)
    ELSE Returned(Seal(k, n, n, data), "")

TooShort == "encrypted data length is too short"

\* Decrypt without the check of line 44: the slice expression of line 48
\* panics on data shorter than the nonce.
DecryptUnguarded(k, encryptedData) ==
    IF ~NewCipher(k) THEN Returned(<<>>, KeySizeError)
    ELSE IF Len(encryptedData) < NonceSize THEN Returned(<<>>, "panic: slice bounds out of range")
    ELSE Open(k, SubSeq(encryptedData, 1, NonceSize), SubSeq(encryptedData, NonceSize + 1, Len(encryptedData)))

\* Decrypt (src/encryption.go:31-51)
Decrypt(k, encryptedData) ==
    IF ~NewCipher(k) THEN Returned(<<>>, KeySizeError)
    ELSE IF Len(encryptedData) < NonceSize THEN Returned(<<>>, TooShort)
    ELSE Open(k, SubSeq(encryptedData, 1, NonceSize), SubSeq(encryptedData, NonceSize + 1, Len(encryptedData)))

\* Keys of the lengths around the three key sizes of AES, and a second key
\* of 32 bytes.
KeyLengths == {0, 16, 24, 31, 32, 33}

Keys == {Rep(<<0>>, n) : n \in KeyLengths} \cup {Rep(<<1>>, 32)}

Nonces == {Rep(b, NonceSize) : b \in Bits}

\* The data given to Encrypt has at most MaxPlain bytes.
MaxPlain == 2

InitCrypto ==
    /\ key \in Keys
    /\ plain \in SeqsUpTo(Bits, MaxPlain)
    /\ sealed = <<>>
    /\ blob = <<>>
    /\ dkey = <<>>
    /\ opened = <<>>
    /\ IdleAlert
    /\ IdleHash
    /\ IdleCallback
    /\ IdleStore
    /\ IdleQueue
    /\ IdlePayload

\* Encrypt(key, plain)
CallEncrypt ==
    /\ sealed = <<>>
    /\ \E n \in Nonces : sealed' = <<Encrypt(key, plain, n)>>
    /\ blob' = sealed'[1].out
    /\ UNCHANGED <<key, plain, dkey, opened, alertVars, hashVars, callbackVars, storeVars, queueVars, payloadVars>>

Undamaged == sealed # <<>> /\ sealed[1].err = "" /\ blob = sealed[1].out /\ opened = <<>>

\* The stored blob loses its end.
Truncate ==
    /\ Undamaged
    /\ \E n \in 0..(Len(blob) - 1) : blob' = SubSeq(blob, 1, n)
    /\ UNCHANGED <<key, plain, sealed, dkey, opened, alertVars, hashVars, callbackVars, storeVars, queueVars, payloadVars>>

\* One byte of the stored blob changes.
Tamper ==
    /\ Undamaged
    /\ \E i \in 1..Len(blob), b \in Bits : b # blob[i] /\ blob' = [blob EXCEPT ![i] = b]
    /\ UNCHANGED <<key, plain, sealed, dkey, opened, alertVars, hashVars, callbackVars, storeVars, queueVars, payloadVars>>

\* Decrypt(k, blob)
CallDecrypt ==
    /\ sealed # <<>>
    /\ opened = <<>>
    /\ \E k \in Keys : dkey' = k /\ opened' = <<Decrypt(k, blob)>>
    /\ UNCHANGED <<key, plain, sealed, blob, alertVars, hashVars, callbackVars, storeVars, queueVars, payloadVars>>

NextCrypto == CallEncrypt \/ Truncate \/ Tamper \/ CallDecrypt

SpecCrypto == InitCrypto /\ [][NextCrypto]_vars

\* C5: for a key that aes.NewCipher takes and any data, Encrypt returns the
\* nonce, then as many bytes as the data, then the tag, and Decrypt of that
\* blob under the same key returns the data with no error.
C5_RoundTrip ==
    (sealed # <<>> /\ NewCipher(key)) =>
        /\ sealed[1].err = ""
        /\ Len(sealed[1].out) = 12 + Len(plain) + 16
        /\ SubSeq(sealed[1].out, 1, 12) \in Nonces
        /\ (opened # <<>> /\ dkey = key /\ blob = sealed[1].out) => opened[1] = Returned(plain, "")

\* C5 witness: a blob of Encrypt has been decrypted under its key to the
\* two bytes it was made from.
C5_Witness ==
    /\ opened # <<>> /\ dkey = key /\ blob = sealed[1].out
    /\ Len(plain) = 2
    /\ opened[1] = Returned(plain, "")

\* C6: with a key that is not 32 bytes long, Encrypt and Decrypt return an
\* error and no bytes.
C6_OnlyKeysOf32Bytes ==
    /\ (sealed # <<>> /\ Len(key) # 32) => sealed[1] = Returned(<<>>, KeySizeError)
    /\ (opened # <<>> /\ Len(dkey) # 32) => (opened[1].err # "" /\ opened[1].out = <<>>)

\* C7: under a key that aes.NewCipher takes, Decrypt of a blob shorter than
\* a nonce returns the error 'encrypted data length is too short', and
\* Decrypt of a blob of Encrypt that was truncated or had a byte changed
\* returns an error and no plaintext.
C7_DamagedBlobRejected ==
    (opened # <<>> /\ NewCipher(dkey)) =>
        /\ Len(blob) < 12 => opened[1] = Returned(<<>>, TooShort)
        /\ (sealed[1].err = "" /\ blob # sealed[1].out) => (opened[1].err # "" /\ opened[1].out = <<>>)

\* C7 witness: Decrypt has refused, under the key of Encrypt, a blob with
\* one byte changed.
C7_Witness ==
    /\ opened # <<>> /\ dkey = key /\ NewCipher(key)
    /\ Len(blob) = Len(sealed[1].out) /\ blob # sealed[1].out
    /\ opened[1] = Returned(<<>>, OpenError)

(***************************************************************************)
(* Specification SpecCallback: one accessor call on a WebhookCallback.     *)
(*                                                                         *)
(* A value of type interface{} is a tuple of its dynamic type and, unless  *)
(* it is the nil interface, its value; a map is nil (the empty sequence)   *)
(* or a pointer to a function from its keys.  Of the fields of a           *)
(* WebhookCallback only the three maps are kept, the accessors read no     *)
(* other.  What a call returned is such a tuple too, or <<"panic", type>>  *)
(* when a type assertion to that type failed.                              *)
(*   cb    the receiver: nil or a pointer to the callback                  *)
(*   got   nil before the call, then the method, its arguments and what    *)
(*         it returned                                                     *)
(***************************************************************************)
NilInterface == <<"nil">>

StringValue(s) == <<"string", s>>

IntValue(n) == <<"int", n>>

BoolValue(b) == <<"bool", b>>

Float64Value(n) == <<"float64", n>>

StringsValue(list) == <<"[]string", list>>

Panic(type) == <<"panic", type>>

\* v.(type) without the comma-ok form.
TypeAssertion(v, type) == IF v[1] = type THEN v ELSE Panic(type)

NilMap == <<>>

MapOf(f) == <<f>>

\* _, ok := m[k]
HasKey(m, k) == m # NilMap /\ k \in DOMAIN m[1]

\* WebhookCallback.GetPayloadValue (src/unnamed/part_000:37-47)
GetPayloadValue(w, k) ==
    IF w = <<>> \/ w[1].Payload = NilMap THEN StringValue(<<>>)
    ELSE IF HasKey(w[1].Payload, k) THEN w[1].Payload[1][k]
    ELSE NilInterface

\* WebhookCallback.GetPayloadString (src/unnamed/part_000:49-59)
GetPayloadString(w, k) ==
    IF w = <<>> \/ w[1].Payload = NilMap THEN StringValue(<<>>)
    ELSE IF HasKey(w[1].Payload, k) THEN TypeAssertion(w[1].Payload[1][k], "string")
    ELSE StringValue(<<>>)

\* WebhookCallback.GetPayloadInt (src/unnamed/part_000:61-71)
GetPayloadInt(w, k, defaultValue) ==
    IF w = <<>> \/ w[1].Payload = NilMap THEN IntValue(defaultValue)
    ELSE IF HasKey(w[1].Payload, k) THEN TypeAssertion(w[1].Payload[1][k], "int")
    ELSE IntValue(defaultValue)

\* WebhookCallback.GetPayloadBool (src/unnamed/part_000:73-83)
GetPayloadBool(w, k, defaultValue) ==
    IF w = <<>> \/ w[1].Payload = NilMap THEN BoolValue(defaultValue)
    ELSE IF HasKey(w[1].Payload, k) THEN TypeAssertion(w[1].Payload[1][k], "bool")
    ELSE BoolValue(defaultValue)

\* WebhookCallback.GetInputValue (src/unnamed/part_000:85-95)
GetInputValue(w, k) ==
    IF w = <<>> \/ w[1].Input = NilMap THEN StringValue(<<>>)
    ELSE IF HasKey(w[1].Input, k) THEN StringValue(w[1].Input[1][k])
    ELSE StringValue(<<>>)

\* WebhookCallback.GetCheckboxInputSelectedValues (src/unnamed/part_000:97-107)
GetCheckboxInputSelectedValues(w, k) ==
    IF w = <<>> \/ w[1].CheckboxInput = NilMap THEN StringsValue(<<>>)
    ELSE IF HasKey(w[1].CheckboxInput, k) THEN StringsValue(w[1].CheckboxInput[1][k])
    ELSE StringsValue(<<>>)

\* The key and the values of the tests.
TheKey == <<"k", "e", "y">>

OtherKey == <<"i", "n", "v", "a", "l", "i", "d">>

TheValue == <<"v", "a", "l", "u", "e">>

Under(k, v) == MapOf([x \in {k} |-> v])

PayloadValues == {StringValue(TheValue), StringValue(<<>>), IntValue(123), IntValue(0), BoolValue(TRUE), BoolValue(FALSE), Float64Value(1), NilInterface}

Payloads == {NilMap, MapOf(EmptyMap)} \cup {Under(TheKey, v) : v \in PayloadValues}

Inputs == {NilMap, MapOf(EmptyMap), Under(TheKey, TheValue)}

CheckboxInputs == {NilMap, MapOf(EmptyMap), Under(TheKey, <<<<"v", "1">>, <<"v", "2">>>>), Under(TheKey, <<>>)}

Callbacks ==
    {<<>>} \cup {<<[Input |-> i, CheckboxInput |-> c, Payload |-> p]>> : i \in Inputs, c \in CheckboxInputs, p \in Payloads}

CallKeys == {TheKey, OtherKey}

Called(method, k, defaultValue, out) == <<[method |-> method, key |-> k, defaultValue |-> defaultValue, out |-> out]>>

InitCallback ==
    /\ cb \in Callbacks
    /\ got = <<>>
    /\ IdleAlert
    /\ IdleHash
    /\ IdleCrypto
    /\ IdleStore
    /\ IdleQueue
    /\ IdlePayload

CallGetPayloadValue ==
    /\ got = <<>>
    /\ \E k \in CallKeys : got' = Called("GetPayloadValue", k, NilInterface, GetPayloadValue(cb, k))
    /\ UNCHANGED <<cb, alertVars, hashVars, cryptoVars, storeVars, queueVars, payloadVars>>

CallGetPayloadString ==
    /\ got = <<>>
    /\ \E k \in CallKeys : got' = Called("GetPayloadString", k, NilInterface, GetPayloadString(cb, k))
    /\ UNCHANGED <<cb, alertVars, hashVars, cryptoVars, storeVars, queueVars, payloadVars>>

CallGetPayloadInt ==
    /\ got = <<>>
    /\ \E k \in CallKeys, d \in {0, 42} : got' = Called("GetPayloadInt", k, IntValue(d), GetPayloadInt(cb, k, d))
    /\ UNCHANGED <<cb, alertVars, hashVars, cryptoVars, storeVars, queueVars, payloadVars>>

CallGetPayloadBool ==
    /\ got = <<>>
    /\ \E k \in CallKeys, d \in BOOLEAN : got' = Called("GetPayloadBool", k, BoolValue(d), GetPayloadBool(cb, k, d))
    /\ UNCHANGED <<cb, alertVars, hashVars, cryptoVars, storeVars, queueVars, payloadVars>>

CallGetInputValue ==
    /\ got = <<>>
    /\ \E k \in CallKeys : got' = Called("GetInputValue", k, NilInterface, GetInputValue(cb, k))
    /\ UNCHANGED <<cb, alertVars, hashVars, cryptoVars, storeVars, queueVars, payloadVars>>

CallGetCheckboxInputSelectedValues ==
    /\ got = <<>>
    /\ \E k \in CallKeys : got' = Called("GetCheckboxInputSelectedValues", k, NilInterface, GetCheckboxInputSelectedValues(cb, k))
    /\ UNCHANGED <<cb, alertVars, hashVars, cryptoVars, storeVars, queueVars, payloadVars>>

NextCallback ==
    \/ CallGetPayloadValue
    \/ CallGetPayloadString
    \/ CallGetPayloadInt
    \/ CallGetPayloadBool
    \/ CallGetInputValue
    \/ CallGetCheckboxInputSelectedValues

SpecCallback == InitCallback /\ [][NextCallback]_vars

\* C8: no accessor panics, whatever the receiver, its maps and the type of
\* the value under the key.
C8_AccessorsNeverFail == got # <<>> => got[1].out[1] # "panic"

(***************************************************************************)
(* Properties of the webhook inputs, checked under Spec.                   *)
(***************************************************************************)
\* The IDs of the inputs of a webhook, the plain text inputs first.
InputIDs(hook) ==
    [i \in 1..Len(hook.PlainTextInput) |-> hook.PlainTextInput[i][1].ID]
        \o [i \in 1..Len(hook.CheckboxInput) |-> hook.CheckboxInput[i][1].ID]

\* The Alert with the webhooks before index j (0-based) and, as its last
\* webhook, webhook j with the checkbox inputs before index k (0-based).
UpToCheckbox(a, j, k) ==
    [a EXCEPT !.Webhooks = Before(@, j) \o <<HookPtr([@[j + 1][1] EXCEPT !.CheckboxInput = Before(@, k)])>>]

\* C11: if ValidateWebhooks returns nil, no two inputs of a webhook, plain
\* text and checkbox inputs taken together, have the same ID; a checkbox
\* input with the ID of a plain text input of its webhook, after inputs that
\* all pass, is rejected with 'must be unique among all inputs'; and webhooks
\* that pass one by one, with different webhook IDs, pass together, whatever
\* input IDs they share.
C11_InputIDsUniqueInWebhook ==
    call = "ValidateWebhooks" =>
        LET hooks == alert.Webhooks
        IN /\ err = NoError =>
                \A j \in 1..Len(hooks) : \A x, y \in 1..Len(InputIDs(hooks[j][1])) :
                    x # y => InputIDs(hooks[j][1])[x] # InputIDs(hooks[j][1])[y]
           /\ \A j \in 1..Len(hooks) :
                (Len(hooks) <= 5 /\ hooks[j] # <<>>) =>
                    \A k \in 1..Len(hooks[j][1].CheckboxInput) :
                        ( /\ ValidateWebhooks(UpToCheckbox(alert, j - 1, k - 1)) = NoError
                          /\ hooks[j][1].CheckboxInput[k] # <<>>
                          /\ \E i \in 1..Len(hooks[j][1].PlainTextInput) :
                                hooks[j][1].PlainTextInput[i][1].ID = hooks[j][1].CheckboxInput[k][1].ID )
                        => err = Err("webhook[%d].checkboxInput[%d].id must be unique among all inputs", <<j - 1, k - 1>>, 0)
           /\ ( /\ Len(hooks) <= 5
                /\ \A j \in 1..Len(hooks) : ValidateWebhooks([alert EXCEPT !.Webhooks = <<hooks[j]>>]) = NoError
                /\ \A i, j \in 1..Len(hooks) : i # j => hooks[i][1].ID # hooks[j][1].ID )
              => err = NoError

\* C11 witness: ValidateWebhooks has accepted two webhooks that have an
\* input ID in common.
C11_Witness ==
    /\ call = "ValidateWebhooks"
    /\ err = NoError
    /\ Len(alert.Webhooks) = 2
    /\ Range(InputIDs(alert.Webhooks[1][1])) \cap Range(InputIDs(alert.Webhooks[2][1])) # {}

\* The URL has the scheme http or https.
HasHTTPScheme(u) ==
    \/ HasPrefix(ToLower(u), <<"h", "t", "t", "p", ":">>)
    \/ HasPrefix(ToLower(u), <<"h", "t", "t", "p", "s", ":">>)

\* The URL is made of ASCII bytes that are no control bytes.
IsPlainASCII(u) == \A i \in 1..Len(u) : u[i] \notin MultiByte \cup ControlRunes \cup {BadByte}

\* C12: for a webhook that is valid but for its URL, 'http://' and
\* 'https://' are rejected with 'url is not a valid absolute URL', and a
\* non-empty URL of at most 1000 bytes without the scheme http or https is
\* accepted when it is plain ASCII and rejected with 'url contains invalid
\* characters' when it is not.
C12_WebhookURLClassification ==
    ( /\ call = "ValidateWebhooks"
      /\ Len(alert.Webhooks) = 1
      /\ alert.Webhooks[1] # <<>>
      /\ ValidateWebhooks([alert EXCEPT !.Webhooks[1][1].URL = BaseWebhook.URL]) = NoError )
    => LET u == alert.Webhooks[1][1].URL
       IN /\ u \in {<<"h", "t", "t", "p", ":", "/", "/">>, <<"h", "t", "t", "p", "s", ":", "/", "/">>}
                => err = Err("webhook[%d].url is not a valid absolute URL", <<0>>, 0)
          /\ (~HasHTTPScheme(u) /\ u # <<>> /\ ByteLen(u) <= 1000)
                => /\ (err = NoError) <=> IsPlainASCII(u)
                   /\ ~IsPlainASCII(u) => err = Err("webhook[%d].url contains invalid characters", <<0>>, 0)

\* C13: Validate accepts a CorrelationID, a webhook ID, a ButtonText and an
\* ignoreIfTextContains entry exactly when it has at most 500, 100, 25 and
\* 1000 runes, whatever its length in bytes (the Alert being valid in
\* every other respect).
C13_LimitsAreRuneCounts ==
    call = "Validate" =>
        /\ Validate([alert EXCEPT !.CorrelationID = <<>>]) = NoError
              => ((err = NoError) <=> (RuneCountInString(alert.CorrelationID) <= 500))
        /\ ( /\ Len(alert.IgnoreIfTextContains) <= 20
             /\ Validate([alert EXCEPT !.IgnoreIfTextContains = <<>>]) = NoError )
              => ((err = NoError) <=> \A i \in 1..Len(alert.IgnoreIfTextContains) :
                                          RuneCountInString(alert.IgnoreIfTextContains[i]) <= 1000)
        /\ (Len(alert.Webhooks) = 1 /\ alert.Webhooks[1] # <<>>) =>
              /\ ( /\ alert.Webhooks[1][1].ID # <<>>
                   /\ Validate([alert EXCEPT !.Webhooks[1][1].ID = BaseWebhook.ID]) = NoError )
                    => ((err = NoError) <=> (RuneCountInString(alert.Webhooks[1][1].ID) <= 100))
              /\ ( /\ alert.Webhooks[1][1].ButtonText # <<>>
                   /\ Validate([alert EXCEPT !.Webhooks[1][1].ButtonText = BaseWebhook.ButtonText]) = NoError )
                    => ((err = NoError) <=> (RuneCountInString(alert.Webhooks[1][1].ButtonText) <= 25))

\* C14: Clean replaces Timestamp with the current time exactly when it is
\* the zero Time or more than 7 days before the current time; a Timestamp
\* of exactly 7 days before, later than that or in the future stays.
C14_TimestampReplaced ==
    [][cleans' = cleans + 1 =>
          alert'.Timestamp = IF alert.Timestamp = ZeroTime \/ now' - alert.Timestamp > 7 * 24 * 3600
                             THEN now'
                             ELSE alert.Timestamp]_vars

\* C14 witness: Clean has left a Timestamp of exactly 7 days before the
\* current time as it was.
C14_Witness ==
    /\ cleans = 1
    /\ now - input.Timestamp = 7 * 24 * 3600
    /\ alert.Timestamp = input.Timestamp

(***************************************************************************)
(* The issue store.  db.go declares the store as the interface DB and      *)
(* dbtests/tests.go exercises any implementation of it; the repository     *)
(* holds no implementation.  The store operations below are therefore      *)
(* written from the contract of the specification (section 4.6 and the     *)
(* concurrency model of section 5) and from what the conformance tests     *)
(* require.  The issues are the testIssue values of the conformance tests. *)
(*                                                                         *)
(* issues   - the stored issues, at most one per ID                        *)
(* fresh    - the clock: it ticks at every writing call, and gives         *)
(*            newTestIssue its time and a save its new post ID             *)
(* pc       - per producer: "find" before its lookup, "save" after it      *)
(* seen     - per producer: the alert it handles and what its lookup found *)
(* archived - the IDs of the issues that were ever stored archived         *)
(* res      - the last store call: its name, arguments, error and output   *)
(***************************************************************************)

Channels == {"C1", "C2"}

CorrelationIDs == {"k1"}

Producers == {1, 2}

MaxFresh == 3

\* tests.go newTestIssue: the ID is built from the correlation ID, the
\* channel and the time of creation; the issue starts open.
newTestIssue(ch, corr, post, t) ==
    [ID |-> <<corr, ch, t>>, CorrelationID |-> corr, SlackChannelID |-> ch,
     Archived |-> FALSE, SlackPostID |-> post]

\* tests.go testIssue.IsOpen
IsOpen(issue) == ~issue.Archived

\* The open issues of a (channel, correlation ID) pair.
OpenIssues(db, ch, corr) ==
    {i \in db : IsOpen(i) /\ i.SlackChannelID = ch /\ i.CorrelationID = corr}

\* What a writing store call leaves behind: the store and the error ("" is nil).
Written(db, e) == [db |-> db, err |-> e]

\* An upsert keyed by the ID alone, with no condition on the write.
SaveIssueUnconditional(db, issue) ==
    IF issue = <<>> THEN Written(db, "issue is nil")
    ELSE IF \E i \in db : i.ID = issue[1].ID /\ ~IsOpen(i) /\ IsOpen(issue[1])
         THEN Written(db, "issue is archived")
    ELSE Written({i \in db : i.ID # issue[1].ID} \cup {issue[1]}, "")

\* An upsert that keeps one open issue per channel and correlation ID, and
\* writes an archived issue open again.
SaveIssueReopening(db, issue) ==
    IF issue = <<>> THEN Written(db, "issue is nil")
    ELSE IF /\ IsOpen(issue[1])
            /\ \E i \in OpenIssues(db, issue[1].SlackChannelID, issue[1].CorrelationID) :
                   i.ID # issue[1].ID
         THEN Written(db, "open issue exists")
    ELSE Written({i \in db : i.ID # issue[1].ID} \cup {issue[1]}, "")

\* A store that adds what is saved and keeps what it held.
SaveIssueAppending(db, issue) ==
    IF issue = <<>> THEN Written(db, "issue is nil")
    ELSE IF \E i \in db : i.ID = issue[1].ID /\ ~IsOpen(i) /\ IsOpen(issue[1])
         THEN Written(db, "issue is archived")
    ELSE IF /\ IsOpen(issue[1])
            /\ \E i \in OpenIssues(db, issue[1].SlackChannelID, issue[1].CorrelationID) :
                   i.ID # issue[1].ID
         THEN Written(db, "open issue exists")
    ELSE Written(db \cup {issue[1]}, "")

\* DB.SaveIssue: an upsert keyed by the ID of the issue (issue is <<>> for
\* nil and <<i>> otherwise).  The write is conditional: an archived issue is
\* not re-opened, and an open issue is not written while another open issue
\* of the same channel and correlation ID is stored.
SaveIssue(db, issue) ==
    IF issue = <<>> THEN Written(db, "issue is nil")
    ELSE IF \E i \in db : i.ID = issue[1].ID /\ ~IsOpen(i) /\ IsOpen(issue[1])
         THEN Written(db, "issue is archived")
    ELSE IF /\ IsOpen(issue[1])
            /\ \E i \in OpenIssues(db, issue[1].SlackChannelID, issue[1].CorrelationID) :
                   i.ID # issue[1].ID
         THEN Written(db, "open issue exists")
    ELSE Written({i \in db : i.ID # issue[1].ID} \cup {issue[1]}, "")

RECURSIVE SaveIssues(_, _)
\* DB.SaveIssues: the issues are saved in order, up to the first error.
SaveIssues(db, list) ==
    IF list = <<>> THEN Written(db, "")
    ELSE LET r == SaveIssue(db, <<Head(list)>>)
         IN  IF r.err # "" THEN r ELSE SaveIssues(r.db, Tail(list))

\* A move that does not compare the two channels.
MoveIssueAnywhere(db, issue, source, target) ==
    IF ~\E i \in db : i.ID = issue.ID /\ i.SlackChannelID = source
    THEN Written(db, "")
    ELSE SaveIssue(db, <<issue>>)

\* DB.MoveIssue: the issue carries the target channel; the source channel
\* finds the stored issue, which the given issue replaces.
MoveIssue(db, issue, source, target) ==
    IF source = target THEN Written(db, "source and target channel are the same")
    ELSE IF ~\E i \in db : i.ID = issue.ID /\ i.SlackChannelID = source
         THEN Written(db, "")
    ELSE SaveIssue(db, <<issue>>)

\* What a lookup returns: the ID (<<>> when empty), the body (<<>> for nil,
\* <<i>> otherwise) and the error.
Found(m, e) ==
    IF e # "" \/ m = {} THEN [id |-> <<>>, body |-> <<>>, err |-> e]
    ELSE LET i == CHOOSE i \in m : TRUE IN [id |-> i.ID, body |-> <<i>>, err |-> ""]

\* DB.FindOpenIssueByCorrelationID
FindOpenIssueByCorrelationID(db, ch, corr) ==
    IF ch = "" THEN Found({}, "channel ID is empty")
    ELSE IF corr = "" THEN Found({}, "correlation ID is empty")
    ELSE IF Cardinality(OpenIssues(db, ch, corr)) > 1
         THEN Found({}, "multiple open issues")
    ELSE Found(OpenIssues(db, ch, corr), "")

\* DB.FindIssueBySlackPostID (post IDs are the numbers handed out by fresh;
\* 0 is the empty post ID)
FindIssueBySlackPostID(db, ch, post) ==
    IF ch = "" THEN Found({}, "channel ID is empty")
    ELSE IF post = 0 THEN Found({}, "post ID is empty")
    ELSE IF Cardinality({i \in db : i.SlackChannelID = ch /\ i.SlackPostID = post}) > 1
         THEN Found({}, "multiple issues")
    ELSE Found({i \in db : i.SlackChannelID = ch /\ i.SlackPostID = post}, "")

\* DB.LoadOpenIssuesInChannel
LoadOpenIssuesInChannel(db, ch) == {i \in db : IsOpen(i) /\ i.SlackChannelID = ch}

\* The IDs of the issues that are stored archived.
ArchivedIn(db) == {i.ID : i \in {x \in db : ~IsOpen(x)}}

InitStore ==
    /\ issues = {}
    /\ fresh = 0
    /\ pc = [p \in Producers |-> "find"]
    /\ seen = [p \in Producers |-> <<>>]
    /\ archived = {}
    /\ res = <<>>
    /\ IdleAlert
    /\ IdleHash
    /\ IdleCrypto
    /\ IdleCallback
    /\ IdleQueue
    /\ IdlePayload

\* What the calling code sees of a store call: its name, its arguments,
\* whether the store held the issue (in the source channel, for a move) when
\* it was called, its error, and what the lookups return right after it for
\* the issue's channel and correlation ID, for its post ID and for every
\* channel.
Seen(op, issue, source, before, db, e) ==
    [op |-> op, issue |-> issue, source |-> source, err |-> e,
     stored |-> \E i \in before : i.ID = issue.ID /\ source \in {"", i.SlackChannelID},
     open |-> FindOpenIssueByCorrelationID(db, issue.SlackChannelID, issue.CorrelationID),
     post |-> FindIssueBySlackPostID(db, issue.SlackChannelID, issue.SlackPostID),
     load |-> [ch \in Channels |-> LoadOpenIssuesInChannel(db, ch)]]

\* A producer looks for the open issue of its alert.
ProducerFind(p) ==
    /\ pc[p] = "find"
    /\ \E ch \in Channels \cup {""}, corr \in CorrelationIDs :
         LET f == FindOpenIssueByCorrelationID(issues, ch, corr)
         IN  /\ seen' = [seen EXCEPT ![p] = IF f.err = "" THEN [ch |-> ch, corr |-> corr, found |-> f.body]
                                           ELSE <<>>]
             /\ pc' = [pc EXCEPT ![p] = IF f.err = "" THEN "save" ELSE "find"]
    /\ UNCHANGED <<issues, fresh, archived, res, alertVars, hashVars, cryptoVars, callbackVars, queueVars, payloadVars>>

\* The producer saves the issue it found, with a new post and open or
\* archived, or else a new issue for its alert.
ProducerSave(p) ==
    /\ pc[p] = "save"
    /\ fresh < MaxFresh
    /\ \E arch \in BOOLEAN :
         LET issue == IF seen[p].found = <<>>
                      THEN [newTestIssue(seen[p].ch, seen[p].corr, fresh + 1, fresh + 1)
                               EXCEPT !.Archived = arch]
                      ELSE [seen[p].found[1] EXCEPT !.SlackPostID = fresh + 1,
                                                    !.Archived = arch]
             r == SaveIssue(issues, <<issue>>)
         IN  /\ issues' = r.db
             /\ archived' = archived \cup ArchivedIn(r.db)
             /\ res' = Seen("SaveIssue", issue, "", issues, r.db, r.err)
    /\ fresh' = fresh + 1
    /\ pc' = [pc EXCEPT ![p] = "find"]
    /\ seen' = [seen EXCEPT ![p] = <<>>]
    /\ UNCHANGED <<alertVars, hashVars, cryptoVars, callbackVars, queueVars, payloadVars>>

\* Two stored issues are saved again in one call, each with a new post.
CallSaveIssues ==
    /\ fresh + 2 <= MaxFresh
    /\ \E a \in issues, b \in issues, arch \in BOOLEAN :
         LET list == <<[a EXCEPT !.SlackPostID = fresh + 1],
                       [b EXCEPT !.SlackPostID = fresh + 2, !.Archived = arch]>>
             r == SaveIssues(issues, list)
         IN  /\ issues' = r.db
             /\ archived' = archived \cup ArchivedIn(r.db)
             /\ res' = Seen("SaveIssues", list[2], "", issues, r.db, r.err)
    /\ fresh' = fresh + 2
    /\ UNCHANGED <<pc, seen, alertVars, hashVars, cryptoVars, callbackVars, queueVars, payloadVars>>

\* A stored issue, or one that was never saved, is moved between channels.
CallMoveIssue ==
    /\ fresh < MaxFresh
    /\ \E i \in issues \cup {newTestIssue(ch, corr, 0, 0) : ch \in Channels, corr \in CorrelationIDs},
          source \in Channels, target \in Channels :
         LET issue == [i EXCEPT !.SlackChannelID = target]
             r == MoveIssue(issues, issue, source, target)
         IN  /\ issues' = r.db
             /\ archived' = archived \cup ArchivedIn(r.db)
             /\ res' = Seen("MoveIssue", issue, source, issues, r.db, r.err)
    /\ fresh' = fresh + 1
    /\ UNCHANGED <<pc, seen, alertVars, hashVars, cryptoVars, callbackVars, queueVars, payloadVars>>

NextStore ==
    \/ \E p \in Producers : ProducerFind(p)
    \/ \E p \in Producers : ProducerSave(p)
    \/ CallSaveIssues
    \/ CallMoveIssue

SpecStore == InitStore /\ [][NextStore]_vars

\* C15: at any time the store holds at most one open issue per channel and
\* correlation ID, however the lookups and saves of the producers interleave.
C15_SingleOpenIssue ==
    \A ch \in Channels, corr \in CorrelationIDs :
        Cardinality(OpenIssues(issues, ch, corr)) <= 1

\* Two producers looked up the same alert, neither found an issue, the
\* first saved a new issue and the save of the second was refused.
C15_Witness ==
    /\ res # <<>>
    /\ res.op = "SaveIssue"
    /\ res.err = "open issue exists"
    /\ res.issue.ID[3] = fresh
    /\ Cardinality(OpenIssues(issues, res.issue.SlackChannelID, res.issue.CorrelationID)) = 1

\* C16: an issue that was once stored archived is never returned by
\* FindOpenIssueByCorrelationID or by LoadOpenIssuesInChannel, whatever the
\* store calls that follow; the lookup for its channel and correlation ID
\* returns an empty result without error while no newer issue is open; and a
\* save of an open issue that succeeds is never the save of an archived ID, so
\* the alert that follows an archived issue gets an issue with another ID.
C16_ArchivedStayOut ==
    /\ \A ch \in Channels, corr \in CorrelationIDs :
         FindOpenIssueByCorrelationID(issues, ch, corr).id \notin archived
    /\ \A ch \in Channels :
         \A i \in LoadOpenIssuesInChannel(issues, ch) : i.ID \notin archived
    /\ \A i \in issues :
         (i.ID \in archived /\ OpenIssues(issues, i.SlackChannelID, i.CorrelationID) = {})
             => FindOpenIssueByCorrelationID(issues, i.SlackChannelID, i.CorrelationID)
                    = Found({}, "")
    /\ res # <<>> =>
         /\ res.open.id \notin archived
         /\ \A ch \in Channels : \A i \in res.load[ch] : i.ID \notin archived
         /\ (res.op = "SaveIssue" /\ res.err = "" /\ IsOpen(res.issue))
                => res.issue.ID \notin archived

\* An issue is stored archived, and the alert of the same channel and
\* correlation ID that followed it was saved as a new open issue, which the
\* lookup returns.
C16_Witness ==
    /\ res # <<>>
    /\ res.op = "SaveIssue"
    /\ res.err = ""
    /\ IsOpen(res.issue)
    /\ \E i \in issues :
         /\ i.ID \in archived
         /\ i.SlackChannelID = res.issue.SlackChannelID
         /\ i.CorrelationID = res.issue.CorrelationID
         /\ i.ID # res.issue.ID
    /\ res.open.id = res.issue.ID

\* The step is a call of SaveIssue or SaveIssues for an issue whose ID is stored.
SavesStored ==
    /\ fresh' # fresh
    /\ res'.op \in {"SaveIssue", "SaveIssues"}
    /\ \E old \in issues : old.ID = res'.issue.ID

\* C17: SaveIssue and SaveIssues are upserts keyed by the ID.  Saving an
\* issue whose ID is stored does not add to the number of stored issues; when
\* the save succeeds the stored issue of that ID is the saved one, and when it
\* came with a new post ID, FindIssueBySlackPostID returns an empty result
\* without error for the old post ID and the issue for the new one.
C17_SaveIsUpsert ==
    [][SavesStored =>
           /\ Cardinality(issues') = Cardinality(issues)
           /\ res'.err = "" =>
                /\ {i \in issues' : i.ID = res'.issue.ID} = {res'.issue}
                /\ \A old \in issues :
                     (old.ID = res'.issue.ID /\ old.SlackPostID # res'.issue.SlackPostID)
                         => /\ \A ch \in Channels :
                                 FindIssueBySlackPostID(issues', ch, old.SlackPostID)
                                     = Found({}, "")
                            /\ FindIssueBySlackPostID(issues', res'.issue.SlackChannelID,
                                                      res'.issue.SlackPostID)
                                   = Found({res'.issue}, "")
                            /\ res'.post = Found({res'.issue}, "")]_vars

\* A stored issue was saved again with a new post ID, next to another stored
\* issue, and the lookup by the new post ID returns it.
C17_Witness ==
    /\ res # <<>>
    /\ res.op = "SaveIssue"
    /\ res.err = ""
    /\ res.issue.ID[3] < res.issue.SlackPostID
    /\ res.post.id = res.issue.ID
    /\ Cardinality(issues) = 2

\* The step is a call of MoveIssue; the issue carries the target channel.
Moves == fresh' # fresh /\ res'.op = "MoveIssue"

\* The issues other than the one of the call are what they were.
OthersUntouched ==
    {i \in issues' : i.ID # res'.issue.ID} = {i \in issues : i.ID # res'.issue.ID}

\* A call with the same source and target returns an error and changes
\* nothing; a call for an issue the store does not hold in the source returns
\* nil and changes nothing.
MoveRefusedOrNoOp ==
    /\ res'.source = res'.issue.SlackChannelID =>
           res'.err # "" /\ issues' = issues
    /\ (res'.source # res'.issue.SlackChannelID /\ ~res'.stored) =>
           res'.err = "" /\ issues' = issues

\* After the call the issue is found by the open lookups in the target and
\* not in the source, and the other issues are what they were.
MovedToTarget ==
    /\ res'.open.id = res'.issue.ID
    /\ res'.issue \in res'.load[res'.issue.SlackChannelID]
    /\ FindOpenIssueByCorrelationID(issues', res'.source, res'.issue.CorrelationID).id
           # res'.issue.ID
    /\ \A i \in res'.load[res'.source] : i.ID # res'.issue.ID
    /\ OthersUntouched

bufferSize == 2

MaxSends == 3

Bodies == {"body_1", "body_2"}

\* A receive from a channel that holds the most recent item first.
RecvNewest(ch) == [item |-> ch[Len(ch)], rest |-> SubSeq(ch, 1, Len(ch) - 1)]

\* item := <-q.items: a buffered channel gives its oldest item.
Recv(ch) == [item |-> Head(ch), rest |-> Tail(ch)]

InitQueue ==
    /\ items = <<>>
    /\ sink = <<>>
    /\ sends = <<>>
    /\ held = <<>>
    /\ rpc = ""
    /\ ctx = FALSE
    /\ ret = <<>>
    /\ qn = 0
    /\ IdleAlert
    /\ IdleHash
    /\ IdleCrypto
    /\ IdleCallback
    /\ IdleStore
    /\ IdlePayload

\* Send builds the item, with a new MessageID, starts the timer and reaches
\* the select.
SendBegin ==
    /\ qn < MaxSends
    /\ IF ret = <<>> THEN TRUE ELSE ret.state # "select"
    /\ \E body \in Bodies :
         ret' = [item |-> [MessageID |-> qn + 1, SlackChannelID |-> "C000000001", Body |-> body],
                 cancelled |-> ctx, timer |-> FALSE, state |-> "select"]
    /\ qn' = qn + 1
    /\ UNCHANGED <<items, sink, sends, held, rpc, ctx, alertVars, hashVars, cryptoVars, callbackVars, storeVars, payloadVars>>

\* writeTimeout has passed since the call of time.After.
TimerFires ==
    /\ ret # <<>>
    /\ ret.state = "select"
    /\ ~ret.timer
    /\ ret' = [ret EXCEPT !.timer = TRUE]
    /\ UNCHANGED <<items, sink, sends, held, rpc, ctx, qn, alertVars, hashVars, cryptoVars, callbackVars, storeVars, payloadVars>>

\* case <-ctx.Done(): return ctx.Err()
SendCanceled ==
    /\ ret # <<>>
    /\ ret.state = "select"
    /\ ctx
    /\ ret' = [ret EXCEPT !.state = "context canceled"]
    /\ UNCHANGED <<items, sink, sends, held, rpc, ctx, qn, alertVars, hashVars, cryptoVars, callbackVars, storeVars, payloadVars>>

\* case <-time.After(q.writeTimeout): return the timeout error
SendTimeout ==
    /\ ret # <<>>
    /\ ret.state = "select"
    /\ ret.timer
    /\ ret' = [ret EXCEPT !.state = "timeout while writing to queue"]
    /\ UNCHANGED <<items, sink, sends, held, rpc, ctx, qn, alertVars, hashVars, cryptoVars, callbackVars, storeVars, payloadVars>>

\* A send to a channel without a capacity.
SendEnqueueUnbounded ==
    /\ ret # <<>>
    /\ ret.state = "select"
    /\ items' = Append(items, ret.item)
    /\ sends' = Append(sends, ret.item)
    /\ ret' = [ret EXCEPT !.state = "nil"]
    /\ UNCHANGED <<sink, held, rpc, ctx, qn, alertVars, hashVars, cryptoVars, callbackVars, storeVars, payloadVars>>

\* case q.items <- item: return nil
SendEnqueue ==
    /\ ret # <<>>
    /\ ret.state = "select"
    /\ Len(items) < bufferSize
    /\ items' = Append(items, ret.item)
    /\ sends' = Append(sends, ret.item)
    /\ ret' = [ret EXCEPT !.state = "nil"]
    /\ UNCHANGED <<sink, held, rpc, ctx, qn, alertVars, hashVars, cryptoVars, callbackVars, storeVars, payloadVars>>

\* Receive is called.
ReceiveBegin ==
    /\ rpc = ""
    /\ rpc' = "outer"
    /\ UNCHANGED <<items, sink, sends, held, ctx, ret, qn, alertVars, hashVars, cryptoVars, callbackVars, storeVars, payloadVars>>

\* case item := <-q.items, in the outer select
ReceiveTake ==
    /\ rpc = "outer"
    /\ items # <<>>
    /\ held' = <<Recv(items).item>>
    /\ items' = Recv(items).rest
    /\ rpc' = "inner"
    /\ UNCHANGED <<sink, sends, ctx, ret, qn, alertVars, hashVars, cryptoVars, callbackVars, storeVars, payloadVars>>

\* case sinkCh <- item, in the inner select
ReceiveWrite ==
    /\ rpc = "inner"
    /\ sink' = Append(sink, held[1])
    /\ held' = <<>>
    /\ rpc' = "outer"
    /\ UNCHANGED <<items, sends, ctx, ret, qn, alertVars, hashVars, cryptoVars, callbackVars, storeVars, payloadVars>>

\* A Receive that looks at the context in its outer select only.
ReceiveCanceledWhileWaiting ==
    /\ rpc = "outer"
    /\ ctx
    /\ rpc' = "done"
    /\ held' = <<>>
    /\ UNCHANGED <<items, sink, sends, ctx, ret, qn, alertVars, hashVars, cryptoVars, callbackVars, storeVars, payloadVars>>

\* case <-ctx.Done(), in either select: Receive returns ctx.Err() and closes
\* the sink; an item it holds is dropped.
ReceiveCanceled ==
    /\ rpc \in {"outer", "inner"}
    /\ ctx
    /\ rpc' = "done"
    /\ held' = <<>>
    /\ UNCHANGED <<items, sink, sends, ctx, ret, qn, alertVars, hashVars, cryptoVars, callbackVars, storeVars, payloadVars>>

\* The caller cancels the context.
Cancel ==
    /\ ~ctx
    /\ ctx' = TRUE
    /\ UNCHANGED <<items, sink, sends, held, rpc, ret, qn, alertVars, hashVars, cryptoVars, callbackVars, storeVars, payloadVars>>

NextQueue ==
    \/ SendBegin
    \/ TimerFires
    \/ SendCanceled
    \/ SendTimeout
    \/ SendEnqueue
    \/ ReceiveBegin
    \/ ReceiveTake
    \/ ReceiveWrite
    \/ ReceiveCanceled
    \/ Cancel

SpecQueue == InitQueue /\ [][NextQueue]_vars

\* C19: the items written to the sink are, in order, the first of the items
\* whose Send returned nil, so each is written at most once and none
\* overtakes another; while Receive has not returned, the items sent are
\* those written, the one Receive holds and those still buffered, in order.
C19_FifoOrder ==
    /\ Len(sink) <= Len(sends)
    /\ sink = SubSeq(sends, 1, Len(sink))
    /\ \A i, j \in 1..Len(sink) : i # j => sink[i].MessageID # sink[j].MessageID
    /\ rpc # "done" => sends = sink \o held \o items

\* Three items were sent and Receive has written all three to the sink.
C19_Witness == Len(sink) = 3 /\ sink = sends /\ sink[1].Body # sink[2].Body

\* The step is the return of Send.
SendReturns ==
    /\ ret # <<>>
    /\ ret.state = "select"
    /\ ret'.state # "select"

\* A Send that returns nil has added its item, and nothing else, to the
\* buffer, which had room for it; a Send that returns an error has left the
\* buffer as it was.
SendEnqueuesOnce ==
    /\ ret'.state = "nil" =>
           /\ Len(items) < bufferSize
           /\ items' = Append(items, ret.item)
    /\ ret'.state # "nil" => items' = items /\ sends' = sends

\* C20 as stated: the buffer never holds more than bufferSize items, and a
\* Send that finds the buffer full when writeTimeout has passed returns the
\* error 'timeout while writing to queue'.
C20_FullQueueTimesOut ==
    [][/\ Len(items') <= bufferSize
       /\ SendReturns =>
              /\ SendEnqueuesOnce
              /\ (Len(items) = bufferSize /\ ret.timer)
                     => ret'.state = "timeout while writing to queue"]_vars

\* C20: the buffer never holds more than bufferSize items; a Send that
\* returns while the buffer is full and the context is not cancelled returns
\* the error 'timeout while writing to queue'; a Send that returns an error
\* enqueues nothing and a Send that returns nil has enqueued exactly its item.
C20_Bounded ==
    [][/\ Len(items') <= bufferSize
       /\ SendReturns =>
              /\ SendEnqueuesOnce
              /\ (Len(items) = bufferSize /\ ~ctx)
                     => ret'.state = "timeout while writing to queue"]_vars

\* The buffer is full, nothing was received, the context is not cancelled,
\* and the third Send returned the timeout error.
C20_Witness ==
    /\ ret # <<>>
    /\ ret.state = "timeout while writing to queue"
    /\ Len(items) = bufferSize
    /\ Len(sends) = bufferSize
    /\ rpc = ""
    /\ ~ctx
    /\ ret.item \notin {items[i] : i \in 1..Len(items)}

\* C21: a Send that was called with a cancelled context returns the error of
\* the context and leaves the buffer as it was, whether the buffer is full or
\* has room.
C21_CancelledSendFails ==
    [][(SendReturns /\ ret.cancelled)
           => ret'.state = "context canceled" /\ items' = items]_vars

\* The queue with the scheduling of Receive.  Both selects of Receive have the
\* case <-ctx.Done(), which stays ready once the context is cancelled, and a
\* select picks among its ready cases at random: a Receive that keeps running
\* takes that case after finitely many rounds.  Nothing is assumed of the
\* sender, of the reader of the sink or of the caller that cancels.
SpecQueueFair == SpecQueue /\ WF_vars(ReceiveCanceled)

\* C22: a running Receive whose context is cancelled returns, at its outer
\* select as at its inner one; it has then closed the sink, and after its
\* return it stays returned and the sink gets no further item.
C22_ReceiveTerminates ==
    /\ (ctx /\ rpc \in {"outer", "inner"}) ~> (rpc = "done")
    /\ [][rpc = "done" => (rpc' = "done" /\ sink' = sink)]_vars
    /\ [][(rpc # "done" /\ rpc' = "done") => (ctx /\ sink' = sink)]_vars

\* Receive returned on the cancelled context while it held an item it had
\* not written to the sink.
C22_Witness ==
    /\ rpc = "done"
    /\ ctx
    /\ Len(sends) > Len(sink) + Len(items)

(***************************************************************************)
(* Encryption of a webhook's payload.  The Webhook (alert.go:226-237)      *)
(* carries Payload, a map[string]any; the two methods that encrypt and     *)
(* decrypt it are not part of the sources at hand and are written from     *)
(* section 4.5 of the specification: the payload is serialised as JSON,    *)
(* encrypted with Encrypt and stored, base64-encoded, under one reserved    *)
(* key.  Encrypt and Decrypt are taken as SpecCrypto shows them: what is   *)
(* sealed with a key opens with that key and with no other.                *)
(*                                                                         *)
(* enc  - the Webhook: its ID and its Payload                              *)
(* pout - the last call: its name, its key, the Webhook before it, the     *)
(*        payload it returned (DecryptPayload) and its error               *)
(***************************************************************************)

ReservedKey == <<"_", "_", "e", "n", "c", "r", "y", "p", "t", "e", "d", "_", "d", "a", "t", "a">>

RECURSIVE DecimalLen(_)
\* The number of digits of a natural number.
DecimalLen(n) == IF n < 10 THEN 1 ELSE 1 + DecimalLen(n \div 10)

\* The JSON token of a value: Go's ints and float64s are both JSON numbers.
JSONToken(v) ==
    IF v = NilInterface THEN <<"null">>
    ELSE IF v[1] \in {"int", "float64"} THEN <<"number", v[2]>>
    ELSE v

\* The number of bytes of a JSON token (strings of plain ASCII; a sealed
\* payload, which is a string too, counts as its JSON form and the quotes).
JSONTokenLen(t) ==
    IF t[1] = "null" THEN 4
    ELSE IF t[1] = "number" THEN DecimalLen(t[2])
    ELSE IF t[1] = "bool" THEN (IF t[2] THEN 4 ELSE 5)
    ELSE IF t[1] = "sealed" THEN t[3].len + 2
    ELSE Len(t[2]) + 2

RECURSIVE JSONMembersLen(_, _)
\* The bytes of the members "key":value of an object, with the commas.
JSONMembersLen(obj, ks) ==
    IF ks = {} THEN 0
    ELSE LET k == CHOOSE x \in ks : TRUE
         IN  Len(k) + 3 + JSONTokenLen(obj[k])
             + (IF ks = {k} THEN 0 ELSE 1 + JSONMembersLen(obj, ks \ {k}))

\* json.Marshal of a map: the object and the number of its bytes.
Marshal(m) ==
    LET obj == [k \in DOMAIN m |-> JSONToken(m[k])]
    IN  [object |-> obj, len |-> 2 + JSONMembersLen(obj, DOMAIN obj)]

\* json.Unmarshal into a map[string]any: a number becomes a float64.
Unmarshal(json) ==
    [k \in DOMAIN json.object |->
        LET t == json.object[k]
        IN  IF t[1] = "null" THEN NilInterface
            ELSE IF t[1] = "number" THEN Float64Value(t[2])
            ELSE t]

\* The base64 form of Encrypt(key, json).
SealedPayload(k, json) == <<"sealed", k, json>>

\* What a call leaves: the Webhook, the payload it returns and its error.
Left(w, payload, e) == [hook |-> w, payload |-> payload, err |-> e]

IsEmptyPayload(w) == w.Payload = NilMap \/ DOMAIN w.Payload[1] = {}

\* EncryptPayload that encrypts whatever the size of the JSON form.
EncryptPayloadOfAnySize(w, k) ==
    IF IsEmptyPayload(w) THEN Left(w, NilMap, "")
    ELSE IF ~NewCipher(k) THEN Left(w, NilMap, KeySizeError)
    ELSE Left([w EXCEPT !.Payload = Under(ReservedKey, SealedPayload(k, Marshal(w.Payload[1])))],
              NilMap, "")

\* Webhook.EncryptPayload
EncryptPayload(w, k) ==
    IF IsEmptyPayload(w) THEN Left(w, NilMap, "")
    ELSE IF Marshal(w.Payload[1]).len > 2048 THEN Left(w, NilMap, "payload is too large")
    ELSE IF ~NewCipher(k) THEN Left(w, NilMap, KeySizeError)
    ELSE Left([w EXCEPT !.Payload = Under(ReservedKey, SealedPayload(k, Marshal(w.Payload[1])))],
              NilMap, "")

\* Webhook.DecryptPayload
DecryptPayload(w, k) ==
    IF IsEmptyPayload(w) THEN Left(w, NilMap, "")
    ELSE IF ~HasKey(w.Payload, ReservedKey) THEN Left(w, NilMap, "")
    ELSE IF ~NewCipher(k) THEN Left(w, NilMap, KeySizeError)
    ELSE IF w.Payload[1][ReservedKey][2] # k THEN Left(w, NilMap, OpenError)
    ELSE Left(w, MapOf(Unmarshal(w.Payload[1][ReservedKey][3])), "")

\* Two keys of 32 bytes and one of 31.
PayloadKeys == {Rep(<<0>>, 32), Rep(<<1>>, 32), Rep(<<0>>, 31)}

\* Payloads: nil, empty, one value of each kind, two values, and string
\* values that bring the JSON form to 2048 bytes and to 2049.
PlainPayloads ==
    {NilMap, MapOf(EmptyMap)}
        \cup {Under(TheKey, v) : v \in PayloadValues}
        \cup {MapOf([x \in {TheKey, OtherKey} |-> IF x = TheKey THEN StringValue(TheValue) ELSE BoolValue(TRUE)])}
        \cup {Under(TheKey, StringValue(Rep("x", n))) : n \in {2038, 2039}}

\* A payload is encrypted at most MaxSeals times over.
MaxSeals == 2

RECURSIVE Seals(_)
\* How many times over a payload is encrypted.
Seals(payload) ==
    IF payload = NilMap \/ ~HasKey(payload, ReservedKey) THEN 0
    ELSE 1 + Seals(MapOf(Unmarshal(payload[1][ReservedKey][3])))

InitPayload ==
    /\ enc \in {[ID |-> <<"f", "o", "o">>, Payload |-> p] : p \in PlainPayloads}
    /\ pout = <<>>
    /\ IdleAlert
    /\ IdleHash
    /\ IdleCrypto
    /\ IdleCallback
    /\ IdleStore
    /\ IdleQueue

CallEncryptPayload ==
    /\ Seals(enc.Payload) < MaxSeals
    /\ \E k \in PayloadKeys :
         LET r == EncryptPayload(enc, k)
         IN  /\ enc' = r.hook
             /\ pout' = [op |-> "EncryptPayload", key |-> k, was |-> enc,
                         payload |-> r.payload, err |-> r.err]
    /\ UNCHANGED <<alertVars, hashVars, cryptoVars, callbackVars, storeVars, queueVars>>

CallDecryptPayload ==
    /\ \E k \in PayloadKeys :
         LET r == DecryptPayload(enc, k)
         IN  /\ enc' = r.hook
             /\ pout' = [op |-> "DecryptPayload", key |-> k, was |-> enc,
                         payload |-> r.payload, err |-> r.err]
    /\ UNCHANGED <<alertVars, hashVars, cryptoVars, callbackVars, storeVars, queueVars>>

NextPayload == CallEncryptPayload \/ CallDecryptPayload

SpecPayload == InitPayload /\ [][NextPayload]_vars

\* The values of the payload are values a JSON document decodes to.
IsJSONPayload(payload) ==
    \A k \in DOMAIN payload[1] :
        payload[1][k] = NilInterface \/ payload[1][k][1] # "int"

\* The payload as JSON carries it: encoded and decoded again.
AsJSON(payload) == MapOf(Unmarshal(Marshal(payload[1])))

Kept == sink \o held \o items

\* C27: every item whose Send returned nil is still buffered in the queue,
\* held by the running Receive on its way to the sink, or written to the
\* sink, also after the context of a Receive that holds an item is cancelled.
C27_NoMessageLost ==
    \A i \in 1..Len(sends) :
        \E k \in 1..Len(Kept) : Kept[k].MessageID = sends[i].MessageID

(***************************************************************************)
(* Further properties of Clean and of the validation methods, checked      *)
(* under Spec.                                                             *)
(***************************************************************************)
\* The value of a shortened field as Clean has it before it looks at the
\* length (src/alert.go:308-319).
BeforeShortening(f, v) ==
    IF f = "FallbackText" THEN cleanFallbackText(v)
    ELSE IF f \in {"Header", "HeaderWhenResolved"} THEN cleanHeader(v)
    ELSE TrimSpace(v)

\* The end Clean gives a shortened value: the ellipsis, and after it the code
\* fence for a text that ended in one.
ShortenedEnd(f, v) ==
    IF f \in {"Text", "TextWhenResolved"} /\ HasSuffix(v, CodeFence)
    THEN Ellipsis \o CodeFence
    ELSE Ellipsis

\* out is v shortened to exactly max runes, or v itself if it had no more.
ExactlyAtLimit(f, v, max, out) ==
    IF RuneCountInString(v) > max
    THEN RuneCountInString(out) = max /\ HasSuffix(out, ShortenedEnd(f, v))
    ELSE out = v

\* C24: after Clean, a field whose trimmed input had more runes than its
\* maximum has exactly the maximum and ends with the ellipsis (and the code
\* fence, for a text ending in one), also when white space stands at the cut;
\* a field within its maximum is the trimmed input.
C24_TruncatedToLimit ==
    cleans >= 1 =>
        /\ \A f \in DOMAIN TruncatedFields :
              ExactlyAtLimit(f, BeforeShortening(f, input[f]), TruncatedFields[f], once[f])
        /\ \A i \in 1..Len(input.Fields) :
              input.Fields[i] # <<>> =>
                 /\ ExactlyAtLimit("Title", TrimSpace(input.Fields[i][1].Title),
                                   MaxFieldTitleLength, once.Fields[i][1].Title)
                 /\ ExactlyAtLimit("Value", TrimSpace(input.Fields[i][1].Value),
                                   MaxFieldValueLength, once.Fields[i][1].Value)

\* How many elements of list equal e.
Count(list, e) == Cardinality({i \in 1..Len(list) : list[i] = e})

\* C25: after Clean the escalation list holds the entries of the input list,
\* each as often as the input did (every non-nil one normalised), all nil
\* entries stand before all non-nil ones, and the non-nil entries are in
\* non-decreasing DelaySeconds order.
C25_EscalationSorted ==
    cleans >= 1 =>
        LET in  == [i \in 1..Len(input.Escalation) |-> cleanEscalation(input.Escalation[i])]
            out == once.Escalation
        IN  /\ Len(out) = Len(in)
            /\ \A i \in 1..Len(in) : Count(out, in[i]) = Count(in, in[i])
            /\ \A i, j \in 1..Len(out) :
                  i < j =>
                     /\ out[j] = <<>> => out[i] = <<>>
                     /\ (out[i] # <<>> /\ out[j] # <<>>) => out[i][1].DelaySeconds <= out[j][1].DelaySeconds

\* Clean has sorted a list of three that had a nil entry after a non-nil one
\* and a larger delay before a smaller one.
C25_Witness ==
    /\ cleans >= 1
    /\ Len(input.Escalation) = 3
    /\ input.Escalation[1] # <<>>
    /\ input.Escalation[2] = <<>>
    /\ input.Escalation[3] # <<>>
    /\ input.Escalation[3][1].DelaySeconds < input.Escalation[1][1].DelaySeconds
    /\ once.Escalation[1] = <<>>
    /\ once.Escalation[2] = input.Escalation[3]

\* s has no white space at either end.
IsTrimmed(s) == s = TrimSpace(s)

\* out has a nil element exactly where in has one.
NilKept(in, out) ==
    /\ Len(out) = Len(in)
    /\ \A i \in 1..Len(in) : (out[i] = <<>>) <=> (in[i] = <<>>)

\* C26: Clean completes on every Alert, also with nil elements in Fields,
\* Webhooks, PlainTextInput, CheckboxInput or Escalation; a nil element stays
\* nil where it was (in Escalation, which is sorted, as many stay nil), and
\* every non-nil element of the same list is normalised.
C26_CleanSkipsNil ==
    cleans >= 1 =>
        /\ NilKept(input.Fields, once.Fields)
        /\ \A i \in 1..Len(once.Fields) :
              once.Fields[i] # <<>> =>
                 /\ IsTrimmed(once.Fields[i][1].Title)
                 /\ IsTrimmed(once.Fields[i][1].Value)
                 /\ RuneCountInString(once.Fields[i][1].Title) <= MaxFieldTitleLength
                 /\ RuneCountInString(once.Fields[i][1].Value) <= MaxFieldValueLength
        /\ NilKept(input.Webhooks, once.Webhooks)
        /\ \A i \in 1..Len(once.Webhooks) :
              once.Webhooks[i] # <<>> =>
                 LET in == input.Webhooks[i][1]
                     out == once.Webhooks[i][1]
                 IN  /\ IsTrimmed(out.ID) /\ IsTrimmed(out.ButtonText)
                     /\ IsTrimmed(out.URL) /\ IsTrimmed(out.ConfirmationText)
                     /\ out.ButtonStyle # <<"d", "e", "f", "a", "u", "l", "t">>
                     /\ NilKept(in.PlainTextInput, out.PlainTextInput)
                     /\ \A k \in 1..Len(out.PlainTextInput) :
                           out.PlainTextInput[k] # <<>> =>
                              /\ IsTrimmed(out.PlainTextInput[k][1].ID)
                              /\ IsTrimmed(out.PlainTextInput[k][1].Description)
                              /\ IsTrimmed(out.PlainTextInput[k][1].InitialValue)
                     /\ NilKept(in.CheckboxInput, out.CheckboxInput)
                     /\ \A k \in 1..Len(out.CheckboxInput) :
                           out.CheckboxInput[k] # <<>> =>
                              /\ IsTrimmed(out.CheckboxInput[k][1].ID)
                              /\ IsTrimmed(out.CheckboxInput[k][1].Label)
        /\ Len(once.Escalation) = Len(input.Escalation)
        /\ Count(once.Escalation, <<>>) = Count(input.Escalation, <<>>)
        /\ \A i \in 1..Len(once.Escalation) :
              once.Escalation[i] # <<>> =>
                 LET out == once.Escalation[i][1]
                 IN  /\ IsTrimmed(out.Severity) /\ out.Severity = ToLower(out.Severity)
                     /\ IsTrimmed(out.MoveToChannel) /\ out.MoveToChannel = ToUpper(out.MoveToChannel)
                     /\ \A k \in 1..Len(out.SlackMentions) : IsTrimmed(out.SlackMentions[k])

\* Clean has met a nil field before a field with white space round its title
\* and has trimmed that title.
C26_Witness ==
    /\ cleans >= 1
    /\ Len(input.Fields) = 2
    /\ input.Fields[1] = <<>>
    /\ input.Fields[2] # <<>>
    /\ ~IsTrimmed(input.Fields[2][1].Title)
    /\ once.Fields[1] = <<>>
    /\ once.Fields[2][1].Title = TrimSpace(input.Fields[2][1].Title)

\* list has no nil element.
NoNilIn(list) == \A i \in 1..Len(list) : list[i] # <<>>

\* No webhook of a is nil, nor any input of a webhook, nor any option of a
\* checkbox input, and no escalation entry is nil.
NoNilBelowFields(a) ==
    /\ NoNilIn(a.Webhooks)
    /\ \A i \in 1..Len(a.Webhooks) :
          /\ NoNilIn(a.Webhooks[i][1].PlainTextInput)
          /\ NoNilIn(a.Webhooks[i][1].CheckboxInput)
          /\ \A k \in 1..Len(a.Webhooks[i][1].CheckboxInput) :
                NoNilIn(a.Webhooks[i][1].CheckboxInput[k][1].Options)
    /\ NoNilIn(a.Escalation)

\* C28: an Alert for which Validate returned nil has no nil element in
\* Fields, Webhooks, a webhook's PlainTextInput, CheckboxInput or checkbox
\* Options, or Escalation.
C28_ValidatedHasNoNil ==
    (call = "Validate" /\ err = NoError) => (NoNilIn(alert.Fields) /\ NoNilBelowFields(alert))

\* The orders in which n entries can stand.
Orders(n) == {p \in [1..n -> 1..n] : \A i, j \in 1..n : i # j => p[i] # p[j]}

\* Clean followed by Validate accepts a.
Accepted(a, t) == Validate(Clean(a, t)) = NoError

\* C29: an Alert that went through Clean and then Validate is accepted if and
\* only if every Alert that differs from it in the order of the Escalation
\* list alone is accepted by Clean and then Validate.
C29_EscalationOrderIrrelevant ==
    (cleans = 1 /\ call = "Validate") =>
        \A p \in Orders(Len(input.Escalation)) :
            LET other == [input EXCEPT !.Escalation = [i \in 1..Len(input.Escalation) |-> input.Escalation[p[i]]]]
            IN  Accepted(other, now) <=> (err = NoError)

\* Clean and Validate have accepted an Alert whose three escalations came
\* with the largest delay first.
C29_Witness ==
    /\ cleans = 1
    /\ call = "Validate"
    /\ err = NoError
    /\ Len(input.Escalation) = 3
    /\ input.Escalation[1][1].DelaySeconds > input.Escalation[2][1].DelaySeconds
    /\ input.Escalation[2][1].DelaySeconds > input.Escalation[3][1].DelaySeconds

\* The step is a call of Validate, ValidateWebhooks or ValidateEscalation.
ValidateStep == call = "" /\ call' \in {"Validate", "ValidateWebhooks", "ValidateEscalation"}

\* C30: a call of Validate or of a single ValidateX method leaves the Alert
\* with everything nested in it as it was, whether it returns nil or an
\* error; a step that changes the Alert is a call of Clean.
C30_ValidateLeavesAlert ==
    [][/\ ValidateStep => alert' = alert
       /\ alert' # alert => cleans' = cleans + 1]_vars

\* Validate has returned an error for an Alert that Clean would change, and
\* the Alert is still the input.
C30_Witness ==
    /\ call = "Validate"
    /\ err # NoError
    /\ cleans = 0
    /\ alert = input
    /\ Clean(alert, now) # alert

====
